---- MODULE Spec2Model ----
(***************************************************************************)
(* A model of the compgraph library: the Graph builder and executor        *)
(* (compgraph/graph.py) and the stream operators, the row merge and the    *)
(* join strategies (compgraph/operations.py).                              *)
(*                                                                         *)
(* A row (a Python dict) is a function from column names (strings) to      *)
(* values; the empty dict {} is the empty function <<>>.  A stream is the  *)
(* finite sequence of the rows it yields.  A key tuple is a sequence of    *)
(* values.                                                                 *)
(***************************************************************************)
EXTENDS Integers, Sequences, FiniteSets, TLC

VARIABLES
    \* ---- Joiner.join applied to one pair of rows (SpecMerge)
    m_keys,        \* keys
    m_row_a,       \* row_a
    m_row_b,       \* row_b
    m_result,      \* the returned result_row
    m_pc,          \* "call" before the call, "done" after it
    \* ---- one invocation of Join.__call__ (SpecJoin)
    j_joiner,      \* self.joiner
    j_keys,        \* self.keys
    j_rows,        \* rows, the left stream
    j_args0,       \* args[0], the right stream
    first_at,      \* position in rows of the current first_group, 0 = (None, None)
    second_at,     \* position in args[0] of the current second_group, 0 = (None, None)
    j_calls,       \* the calls of self.joiner made so far: [rows_a, rows_b, branch]
    j_out,         \* the rows yielded so far
    j_pc,          \* "start", "loop" or "done"
    \* ---- the Graph builder (SpecBuild) and Graph.run (SpecRun)
    heap,          \* the list objects and the Graph objects created so far
    made,          \* per Graph object: the call that returned it and what it held then
    kwargs,        \* the source map handed to run
    gen,           \* the generator run returned: "none", "created", "running", "done",
                   \* "closed", or "raised" when an error came out of it
    stack,         \* the frames of run being executed, the innermost last
    calls,         \* the invocations of source factories: [run, name]
    joins,         \* the applications of Join operators by the current run
    outs,          \* the outputs of the runs consumed to the end
    nruns,         \* the number of calls of run so far
    \* ---- one invocation of Map, Reduce or ExternalSort over a stream (SpecOp)
    o_op,          \* the operation object
    o_rows,        \* rows, the input stream
    o_at,          \* position in rows of the next row (Map) or group (Reduce), 0 = exhausted
    o_calls,       \* the calls of the mapper or reducer made so far
    o_out,         \* the rows yielded so far
    o_pc           \* "idle", "start", "loop", "done" or "raised"

mergeVars == <<m_keys, m_row_a, m_row_b, m_result, m_pc>>
joinVars == <<j_joiner, j_keys, j_rows, j_args0, first_at, second_at, j_calls, j_out, j_pc>>
buildVars == <<heap, made>>
runVars == <<kwargs, gen, stack, calls, joins, outs, nruns>>
opVars == <<o_op, o_rows, o_at, o_calls, o_out, o_pc>>
vars == <<mergeVars, joinVars, buildVars, runVars, opVars>>

(***************************************************************************)
(* Generic helpers on sequences and rows.                                  *)
(***************************************************************************)
Range(s) == {s[i] : i \in 1..Len(s)}

EmptyRow == [c \in {} |-> 0]

\* dict.update: the columns of u replace or extend those of r
Update(r, u) ==
    [c \in (DOMAIN r) \cup (DOMAIN u) |-> IF c \in DOMAIN u THEN u[c] ELSE r[c]]

\* Python's truth value of a dict: an empty dict is false
Truthy(row) == DOMAIN row # {}

RECURSIVE Flatten(_)
Flatten(ss) == IF ss = <<>> THEN <<>> ELSE Head(ss) \o Flatten(Tail(ss))

\* Python's < on tuples of integers of equal length (lexicographic)
RECURSIVE TupleLess(_, _)
TupleLess(s, t) ==
    IF s = <<>> \/ t = <<>> THEN s = <<>> /\ t # <<>>
    ELSE IF s[1] # t[1] THEN s[1] < t[1]
    ELSE TupleLess(Tail(s), Tail(t))

\* tuple(row[k] for k in keys)
KeyOf(row, keys) == [i \in 1..Len(keys) |-> row[keys[i]]]

(***************************************************************************)
(* Joiner.join: the merge of two rows.                                     *)
(***************************************************************************)
DefaultSuffixA == "_1"
DefaultSuffixB == "_2"

non_key_columns(keys, row_a, row_b) ==
    ((DOMAIN row_a) \cap (DOMAIN row_b)) \ Range(keys)

merge_common_columns(common, row, suffix) ==
    [n \in {c \o suffix : c \in common} |->
        row[CHOOSE c \in common : c \o suffix = n]]

\* the columns that do not collide given the suffix of the colliding ones
merge_non_key_columns_suffixed(common, row) ==
    [n \in {c \o DefaultSuffixA : c \in (DOMAIN row) \ common} |->
        row[CHOOSE c \in (DOMAIN row) \ common : c \o DefaultSuffixA = n]]

merge_non_key_columns(common, row) ==
    [c \in (DOMAIN row) \ common |-> row[c]]

\* join that leaves the colliding columns of row_b under their bare names
Joiner_join_bareB(joiner, keys, row_a, row_b) ==
    LET common == non_key_columns(keys, row_a, row_b)
        r1 == Update(EmptyRow, merge_non_key_columns(common, row_a))
        r2 == Update(r1, merge_non_key_columns(common, row_b))
        r3 == Update(r2, merge_common_columns(common, row_a, joiner._a_suffix))
        r4 == Update(r3, merge_common_columns(common, row_b, ""))
    IN  r4

Joiner_join(joiner, keys, row_a, row_b) ==
    LET common == non_key_columns(keys, row_a, row_b)
        r1 == Update(EmptyRow, merge_non_key_columns(common, row_a))
        r2 == Update(r1, merge_non_key_columns(common, row_b))
        r3 == Update(r2, merge_common_columns(common, row_a, joiner._a_suffix))
        r4 == Update(r3, merge_common_columns(common, row_b, joiner._b_suffix))
    IN  r4

(***************************************************************************)
(* The join strategies.  A joiner is its class and its two suffixes; the   *)
(* groups rows_a and rows_b are the sequences the iterables yield.         *)
(***************************************************************************)
Joiner(kind) == [kind |-> kind, _a_suffix |-> DefaultSuffixA, _b_suffix |-> DefaultSuffixB]

JoinerKinds == {"InnerJoiner", "OuterJoiner", "LeftJoiner", "RightJoiner"}

\* the test a strategy makes in its inner loop before it yields a merged row:
\* "both" is `if second_row and first_row`, "first" is `if first_row`,
\* "second" is `if second_row`, "none" is no test
Keep(test, first_row, second_row) ==
    CASE test = "both" -> Truthy(second_row) /\ Truthy(first_row)
      [] test = "first" -> Truthy(first_row)
      [] test = "second" -> Truthy(second_row)
      [] test = "none" -> TRUE

\* the two loops the other way round: for second_row ...: for first_row ...
CrossRows_rightMajor(joiner, keys, rows_a, rows_b, test) ==
    Flatten([j \in 1..Len(rows_b) |->
        Flatten([i \in 1..Len(rows_a) |->
            IF Keep(test, rows_a[i], rows_b[j])
            THEN <<Joiner_join(joiner, keys, rows_a[i], rows_b[j])>>
            ELSE <<>>])])

\* for first_row in rows_a: for second_row in copy_rows_b: [if test:] yield join(...)
CrossRows(joiner, keys, rows_a, rows_b, test) ==
    Flatten([i \in 1..Len(rows_a) |->
        Flatten([j \in 1..Len(rows_b) |->
            IF Keep(test, rows_a[i], rows_b[j])
            THEN <<Joiner_join(joiner, keys, rows_a[i], rows_b[j])>>
            ELSE <<>>])])

\* for first_row in rows_a: yield join(keys, first_row, {})
LeftAlone(joiner, keys, rows_a) ==
    [i \in 1..Len(rows_a) |-> Joiner_join(joiner, keys, rows_a[i], EmptyRow)]

\* for second_row in copy_rows_b: yield join(keys, {}, second_row)
RightAlone(joiner, keys, rows_b) ==
    [j \in 1..Len(rows_b) |-> Joiner_join(joiner, keys, EmptyRow, rows_b[j])]

InnerJoiner_call(joiner, keys, rows_a, rows_b) ==
    CrossRows(joiner, keys, rows_a, rows_b, "both")

\* the outer strategy with the inner strategy's test of the two rows
OuterJoiner_call_skipEmpty(joiner, keys, rows_a, rows_b) ==
    CrossRows(joiner, keys, rows_a, rows_b, "both")

OuterJoiner_call(joiner, keys, rows_a, rows_b) ==
    IF Len(rows_b) # 0
    THEN IF Len(rows_a) # 0
         THEN CrossRows(joiner, keys, rows_a, rows_b, "none")
         ELSE RightAlone(joiner, keys, rows_b)
    ELSE LeftAlone(joiner, keys, rows_a)

\* the left strategy pairing a left row with the first right row only
LeftJoiner_call_firstOnly(joiner, keys, rows_a, rows_b) ==
    IF Len(rows_a) # 0
    THEN CrossRows(joiner, keys, rows_a, SubSeq(rows_b, 1, 1), "first")
    ELSE RightAlone(joiner, keys, rows_b)

LeftJoiner_call(joiner, keys, rows_a, rows_b) ==
    IF Len(rows_a) # 0
    THEN CrossRows(joiner, keys, rows_a, rows_b, "first")
    ELSE RightAlone(joiner, keys, rows_b)

RightJoiner_call(joiner, keys, rows_a, rows_b) ==
    IF Len(rows_a) # 0
    THEN CrossRows(joiner, keys, rows_a, rows_b, "second")
    ELSE RightAlone(joiner, keys, rows_b)

\* self.joiner(keys, rows_a, rows_b): dispatch on the joiner's class
Joiner_call(joiner, keys, rows_a, rows_b) ==
    CASE joiner.kind = "InnerJoiner" -> InnerJoiner_call(joiner, keys, rows_a, rows_b)
      [] joiner.kind = "OuterJoiner" -> OuterJoiner_call(joiner, keys, rows_a, rows_b)
      [] joiner.kind = "LeftJoiner" -> LeftJoiner_call(joiner, keys, rows_a, rows_b)
      [] joiner.kind = "RightJoiner" -> RightJoiner_call(joiner, keys, rows_a, rows_b)

(***************************************************************************)
(* itertools.groupby over a stream: a group is a maximal run of adjacent   *)
(* rows with equal key tuple.  A grouper's position is the index of the    *)
(* first row of its current group; 0 stands for the exhausted grouper,     *)
(* whose next() gives the default (None, None).                            *)
(***************************************************************************)
\* groupby ending every group after its first row
GroupEnd_single(rows, keys, p) == p

GroupEnd(rows, keys, p) ==
    CHOOSE q \in p..Len(rows) :
        /\ \A i \in p..q : KeyOf(rows[i], keys) = KeyOf(rows[p], keys)
        /\ (q = Len(rows) \/ KeyOf(rows[q + 1], keys) # KeyOf(rows[p], keys))

GroupAt(rows, keys, p) == SubSeq(rows, p, GroupEnd(rows, keys, p))

\* next(grouper, (None, None)) after the group at p
NextGroup(rows, keys, p) ==
    IF GroupEnd(rows, keys, p) = Len(rows) THEN 0 ELSE GroupEnd(rows, keys, p) + 1

\* next(grouper, (None, None)) on a fresh grouper
FirstGroup(rows) == IF rows = <<>> THEN 0 ELSE 1

\* list(groupby(rows, key)): all the groups of a stream in order
RECURSIVE GroupsFrom(_, _, _)
GroupsFrom(rows, keys, p) ==
    IF p = 0 THEN <<>>
    ELSE <<GroupAt(rows, keys, p)>> \o GroupsFrom(rows, keys, NextGroup(rows, keys, p))

Groups(rows, keys) == GroupsFrom(rows, keys, FirstGroup(rows))

(***************************************************************************)
(* Operations.  An operation object is immutable configuration: a record   *)
(* of its class and its constructor arguments.                             *)
(***************************************************************************)
ReadIterFactory(name) == [kind |-> "ReadIterFactory", name |-> name]
Read(filename, parser) == [kind |-> "Read", filename |-> filename, parser |-> parser]
Map(mapper) == [kind |-> "Map", mapper |-> mapper]
Reduce(reducer, keys) == [kind |-> "Reduce", reducer |-> reducer, keys |-> keys]
ExternalSort(keys) == [kind |-> "ExternalSort", keys |-> keys]
Join(joiner, keys) == [kind |-> "Join", joiner |-> joiner, keys |-> keys]

\* mappers and reducers: the class and the constructor arguments
DummyMapper == [kind |-> "DummyMapper"]
Project(columns) == [kind |-> "Project", columns |-> columns]
FirstReducer == [kind |-> "FirstReducer"]
Count(column) == [kind |-> "Count", column |-> column]
Filter(condition) == [kind |-> "Filter", condition |-> condition]
Split(column) == [kind |-> "Split", column |-> column]
TopN(column, n) == [kind |-> "TopN", column_max |-> column, n |-> n]
FilterPunctuation(column) == [kind |-> "FilterPunctuation", column |-> column]
LowerCase(column) == [kind |-> "LowerCase", column |-> column]
Product(columns, result_column) ==
    [kind |-> "Product", columns |-> columns, result_column |-> result_column]
HaversineDistance(start_coords, end_coords, result_column) ==
    [kind |-> "HaversineDistance", start_coords |-> start_coords, end_coords |-> end_coords,
     result_column |-> result_column]
RoadTime(enter_time, leave_time, result_column) ==
    [kind |-> "RoadTime", enter_time |-> enter_time, leave_time |-> leave_time,
     result_column |-> result_column]
Weekday(datetime_column, result_column) ==
    [kind |-> "Weekday", datetime_column |-> datetime_column, result_column |-> result_column]
Hour(datetime_column, result_column) ==
    [kind |-> "Hour", datetime_column |-> datetime_column, result_column |-> result_column]
Speed(distance, time, result_column) ==
    [kind |-> "Speed", distance |-> distance, time |-> time, result_column |-> result_column]
InverseDocumentFrequency(total_docs_column, docs_column, result_column) ==
    [kind |-> "InverseDocumentFrequency", total_docs_column |-> total_docs_column,
     docs_column |-> docs_column, result_column |-> result_column]

(***************************************************************************)
(* The Python heap of the builder: list objects and Graph objects, each    *)
(* known by its position.  A Graph object holds references to two list     *)
(* objects; the list graphs_to_join holds references to Graph objects.     *)
(***************************************************************************)
EmptyHeap == [lists |-> <<>>, graphs |-> <<>>]

\* a new list object; its reference is Len(NewList(h, items).lists)
NewList(h, items) == [h EXCEPT !.lists = Append(h.lists, items)]

\* list.append: the list object is changed in place
ListAppend(h, ref, item) == [h EXCEPT !.lists[ref] = Append(h.lists[ref], item)]

None == 0

\* Graph.__init__; the new Graph's reference is Len(result.graphs)
Graph_init(h, operations, graphs_to_join) ==
    IF graphs_to_join = None
    THEN LET h2 == NewList(h, <<>>)
         IN  [h2 EXCEPT !.graphs = Append(h2.graphs,
                 [operations |-> operations, graphs_to_join |-> Len(h2.lists)])]
    ELSE [h EXCEPT !.graphs = Append(h.graphs,
             [operations |-> operations, graphs_to_join |-> graphs_to_join])]

\* self.operations and self.graphs_to_join as sequences
OperationsOf(h, g) == h.lists[h.graphs[g].operations]
GraphsToJoinOf(h, g) == h.lists[h.graphs[g].graphs_to_join]

graph_from_iter(h, name) ==
    LET h2 == NewList(h, <<ReadIterFactory(name)>>)
    IN  Graph_init(h2, Len(h2.lists), None)

graph_from_file(h, filename, parser) ==
    LET h2 == NewList(h, <<Read(filename, parser)>>)
    IN  Graph_init(h2, Len(h2.lists), None)

\* Graph(self.operations + [operation], self.graphs_to_join)
Extend(h, self, operation) ==
    LET h2 == NewList(h, OperationsOf(h, self) \o <<operation>>)
    IN  Graph_init(h2, Len(h2.lists), h.graphs[self].graphs_to_join)

Graph_map(h, self, mapper) == Extend(h, self, Map(mapper))

Graph_reduce(h, self, reducer, keys) == Extend(h, self, Reduce(reducer, keys))

Graph_sort(h, self, keys) == Extend(h, self, ExternalSort(keys))

\* join with self.graphs_to_join.append(join_graph) in place of the + [join_graph]
Graph_join_append(h, self, joiner, join_graph, keys) ==
    LET h2 == NewList(h, OperationsOf(h, self) \o <<Join(joiner, keys)>>)
        h3 == ListAppend(h2, h.graphs[self].graphs_to_join, join_graph)
    IN  Graph_init(h3, Len(h2.lists), h.graphs[self].graphs_to_join)

\* join that passes self.graphs_to_join on as map, reduce and sort do
Graph_join_noSide(h, self, joiner, join_graph, keys) ==
    Extend(h, self, Join(joiner, keys))

Graph_join(h, self, joiner, join_graph, keys) ==
    LET h2 == NewList(h, OperationsOf(h, self) \o <<Join(joiner, keys)>>)
        h3 == NewList(h2, GraphsToJoinOf(h, self) \o <<join_graph>>)
    IN  Graph_init(h3, Len(h2.lists), Len(h3.lists))

(***************************************************************************)
(* Join.__call__: the merge walk over the groups of the two streams.       *)
(* JoinStart is the code before the loop; JoinLoop is one iteration of the *)
(* while loop; JoinExit is the loop condition found false.                 *)
(***************************************************************************)
\* first_key / second_key of a grouper that is not exhausted; the exhausted
\* grouper's key and group are None, which the model reads off its position 0
KeyAt(rows, keys, p) == KeyOf(rows[p], keys)

\* the record of one call self.joiner(keys, rows_a, rows_b), with the branch
\* of the loop body ("if", "elif", "else") that made it
JoinerCall(rows_a, rows_b, branch) == [rows_a |-> rows_a, rows_b |-> rows_b, branch |-> branch]

JoinStart ==
    /\ j_pc = "start"
    /\ first_at' = FirstGroup(j_rows)
    /\ second_at' = FirstGroup(j_args0)
    /\ j_pc' = "loop"
    /\ UNCHANGED <<j_joiner, j_keys, j_rows, j_args0, j_calls, j_out>>
    /\ UNCHANGED <<mergeVars, buildVars, runVars, opVars>>

\* the first branch taken also on equal keys (first_key <= second_key)
TakeFirst_orEqual(rows, args0, keys, p, q) ==
    /\ p # 0
    /\ (q = 0 \/ ~TupleLess(KeyOf(args0[q], keys), KeyOf(rows[p], keys)))

\* if first_group is not None and first_key is not None
\*    and (second_key is None or first_key < second_key)
TakeFirst(rows, args0, keys, p, q) ==
    /\ p # 0
    /\ (q = 0 \/ TupleLess(KeyAt(rows, keys, p), KeyAt(args0, keys, q)))

\* the second branch without `first_key is None or`
TakeSecond_needsFirst(rows, args0, keys, p, q) ==
    /\ q # 0
    /\ p # 0
    /\ TupleLess(KeyAt(args0, keys, q), KeyAt(rows, keys, p))

\* elif second_key is not None and second_group is not None
\*      and (first_key is None or second_key < first_key)
TakeSecond(rows, args0, keys, p, q) ==
    /\ q # 0
    /\ (p = 0 \/ TupleLess(KeyAt(args0, keys, q), KeyAt(rows, keys, p)))

\* one iteration of the while loop with the groupers at p and q: the call of
\* the joiner it makes (none in the last branch), the rows it yields, and the
\* positions of the groupers after it
JoinBody(joiner, keys, rows, args0, p, q) ==
    IF TakeFirst(rows, args0, keys, p, q)
    THEN LET first_group == GroupAt(rows, keys, p)
         IN  [calls |-> <<JoinerCall(first_group, <<EmptyRow>>, "if")>>,
              out |-> Joiner_call(joiner, keys, first_group, <<EmptyRow>>),
              first_at |-> NextGroup(rows, keys, p),
              second_at |-> q]
    ELSE IF TakeSecond(rows, args0, keys, p, q)
    THEN LET second_group == GroupAt(args0, keys, q)
         IN  [calls |-> <<JoinerCall(<<EmptyRow>>, second_group, "elif")>>,
              out |-> Joiner_call(joiner, keys, <<EmptyRow>>, second_group),
              first_at |-> p,
              second_at |-> NextGroup(args0, keys, q)]
    ELSE IF p # 0 /\ q # 0
    THEN LET first_group == GroupAt(rows, keys, p)
             second_group == GroupAt(args0, keys, q)
         IN  [calls |-> <<JoinerCall(first_group, second_group, "else")>>,
              out |-> Joiner_call(joiner, keys, first_group, second_group),
              first_at |-> NextGroup(rows, keys, p),
              second_at |-> NextGroup(args0, keys, q)]
    ELSE [calls |-> <<>>, out |-> <<>>, first_at |-> p, second_at |-> q]

JoinLoop ==
    /\ j_pc = "loop"
    /\ (first_at # 0 \/ second_at # 0)
    /\ LET body == JoinBody(j_joiner, j_keys, j_rows, j_args0, first_at, second_at)
       IN  /\ j_calls' = j_calls \o body.calls
           /\ j_out' = j_out \o body.out
           /\ first_at' = body.first_at
           /\ second_at' = body.second_at
    /\ UNCHANGED <<j_joiner, j_keys, j_rows, j_args0, j_pc>>
    /\ UNCHANGED <<mergeVars, buildVars, runVars, opVars>>

JoinExit ==
    /\ j_pc = "loop"
    /\ first_at = 0
    /\ second_at = 0
    /\ j_pc' = "done"
    /\ UNCHANGED <<j_joiner, j_keys, j_rows, j_args0, first_at, second_at, j_calls, j_out>>
    /\ UNCHANGED <<mergeVars, buildVars, runVars, opVars>>

(***************************************************************************)
(* The stream operators applied to a whole stream.                         *)
(***************************************************************************)
\* all the rows Join.__call__ yields, the groupers being at p and q
RECURSIVE JoinFrom(_, _, _, _, _, _)
JoinFrom(joiner, keys, rows, args0, p, q) ==
    IF p = 0 /\ q = 0 THEN <<>>
    ELSE LET body == JoinBody(joiner, keys, rows, args0, p, q)
         IN  body.out \o JoinFrom(joiner, keys, rows, args0, body.first_at, body.second_at)

Join_call(op, rows, args0) ==
    JoinFrom(op.joiner, op.keys, rows, args0, FirstGroup(rows), FirstGroup(args0))

\* the conditions handed to Filter, by name
Condition(condition, row) ==
    CASE condition = "v_is_1" -> row["v"] = 1

\* Split: a text is the sequence of its words and a word a text of one word;
\* one row per word found, the row with the empty text if none is found
Split_call(mapper, row) ==
    LET text == row[mapper.column]
    IN  IF text = <<>> THEN <<Update(row, [c \in {mapper.column} |-> <<>>])>>
        ELSE [i \in 1..Len(text) |-> Update(row, [c \in {mapper.column} |-> <<text[i]>>])]

\* a string is the sequence of its characters: 1 is a lower-case letter, 2 the
\* same letter in upper case, 3 a punctuation mark
Punctuation == {3}

str_lower(txt) == [i \in 1..Len(txt) |-> IF txt[i] = 2 THEN 1 ELSE txt[i]]

\* ''.join([char for char in txt if char not in string.punctuation])
StripPunctuation(txt) == SelectSeq(txt, LAMBDA char : char \notin Punctuation)

\* result_product = 1; for column in columns: result_product *= row[column]
RECURSIVE ProductOf(_, _)
ProductOf(row, columns) ==
    IF columns = <<>> THEN 1
    ELSE ProductOf(row, SubSeq(columns, 1, Len(columns) - 1)) * row[columns[Len(columns)]]

\* the mappers that add the value of a formula over columns of the row
FormulaMappers ==
    {"HaversineDistance", "RoadTime", "Weekday", "Hour", "Speed", "InverseDocumentFrequency"}

\* the columns such a mapper reads, in the order its formula reads them
ArgColumns(mapper) ==
    CASE mapper.kind = "HaversineDistance" -> <<mapper.start_coords, mapper.end_coords>>
      [] mapper.kind = "RoadTime" -> <<mapper.enter_time, mapper.leave_time>>
      [] mapper.kind = "Weekday" -> <<mapper.datetime_column>>
      [] mapper.kind = "Hour" -> <<mapper.datetime_column>>
      [] mapper.kind = "Speed" -> <<mapper.distance, mapper.time>>
      [] mapper.kind = "InverseDocumentFrequency" ->
            <<mapper.total_docs_column, mapper.docs_column>>

\* the value such a mapper computes: its formula is not evaluated, the value
\* is the term of the formula's name and the values it reads
FormulaValue(mapper, row) ==
    [fn |-> mapper.kind, args |-> [i \in 1..Len(ArgColumns(mapper)) |-> row[ArgColumns(mapper)[i]]]]

\* the value a mapper assigns to the column of its copy
Assigned(mapper, row) ==
    CASE mapper.kind = "FilterPunctuation" -> StripPunctuation(row[mapper.column])
      [] mapper.kind = "LowerCase" -> str_lower(row[mapper.column])
      [] mapper.kind = "Product" -> ProductOf(row, mapper.columns)
      [] mapper.kind \in FormulaMappers -> FormulaValue(mapper, row)

\* the column a mapper assigns in its copy
AssignedColumn(mapper) ==
    IF mapper.kind \in {"FilterPunctuation", "LowerCase"} THEN mapper.column
    ELSE mapper.result_column

Mapper_call(mapper, row) ==
    CASE mapper.kind = "DummyMapper" -> <<row>>
      [] mapper.kind = "Project" -> <<[c \in Range(mapper.columns) |-> row[c]]>>
      [] mapper.kind = "Filter" -> IF Condition(mapper.condition, row) THEN <<row>> ELSE <<>>
      [] mapper.kind = "Split" -> Split_call(mapper, row)
      [] OTHER -> <<Update(row, [c \in {AssignedColumn(mapper)} |-> Assigned(mapper, row)])>>

(***************************************************************************)
(* A call of a mapper on the dict objects.  The store of a call is the     *)
(* sequence of the dicts that exist, a dict known by its position; the     *)
(* argument row is the dict 1.                                             *)
(***************************************************************************)
\* copied_row = row: the copy is the argument itself
deepcopy_alias(store, ref) == [store |-> store, ref |-> ref]

\* deepcopy(row): a new dict with the content of the dict ref
deepcopy(store, ref) == [store |-> Append(store, store[ref]), ref |-> Len(store) + 1]

\* a dict display, a dict comprehension or row | other: a new dict
NewDict(store, content) == [store |-> Append(store, content), ref |-> Len(store) + 1]

\* d[column] = value on the dict ref
SetItem(store, ref, column, value) ==
    [store EXCEPT ![ref] = Update(@, [c \in {column} |-> value])]

\* the new dicts of row | {column: word} for the words in order
RECURSIVE SplitDicts(_, _, _)
SplitDicts(store, column, words) ==
    IF words = <<>> THEN [store |-> store, yielded |-> <<>>]
    ELSE LET made_row == NewDict(store, Update(store[1], [c \in {column} |-> Head(words)]))
             rest == SplitDicts(made_row.store, column, Tail(words))
         IN  [store |-> rest.store, yielded |-> <<made_row.ref>> \o rest.yielded]

\* mapper(row) run to its end: the store it leaves and the dicts it yielded
Mapper_run(mapper, row) ==
    LET store == <<row>>
    IN  CASE mapper.kind = "DummyMapper" -> [store |-> store, yielded |-> <<1>>]
          [] mapper.kind = "Filter" ->
                [store |-> store,
                 yielded |-> IF Condition(mapper.condition, store[1]) THEN <<1>> ELSE <<>>]
          [] mapper.kind = "Project" ->
                LET made_row == NewDict(store, [c \in Range(mapper.columns) |-> store[1][c]])
                IN  [store |-> made_row.store, yielded |-> <<made_row.ref>>]
          [] mapper.kind = "Split" ->
                LET text == store[1][mapper.column]
                IN  SplitDicts(store, mapper.column,
                               IF text = <<>> THEN <<(<<>>)>>
                               ELSE [i \in 1..Len(text) |-> <<text[i]>>])
          [] OTHER ->
                LET copied_row == deepcopy(store, 1)
                    value == Assigned(mapper, copied_row.store[1])
                IN  [store |-> SetItem(copied_row.store, copied_row.ref,
                                       AssignedColumn(mapper), value),
                     yielded |-> <<copied_row.ref>>]

\* the rows a run yielded, with the content they have when it ends
Yielded(run) == [i \in 1..Len(run.yielded) |-> run.store[run.yielded[i]]]

Map_call(op, rows) == Flatten([i \in 1..Len(rows) |-> Mapper_call(op.mapper, rows[i])])

\* Count that records the presence of a key tuple, not the number of its rows
Count_call_presence(reducer, group_key, rows) ==
    LET firsts == SelectSeq([i \in 1..Len(rows) |-> i],
                     LAMBDA i : \A j \in 1..(i - 1) :
                                   KeyOf(rows[j], group_key) # KeyOf(rows[i], group_key))
    IN  [n \in 1..Len(firsts) |->
            LET key == KeyOf(rows[firsts[n]], group_key)
                new_row == [c \in Range(group_key) |->
                               key[CHOOSE i \in 1..Len(group_key) : group_key[i] = c]]
            IN  Update(new_row, [c \in {reducer.column} |-> 1])]

\* Count: one row per key tuple of the rows, in the order the tuples first occur
Count_call(reducer, group_key, rows) ==
    LET firsts == SelectSeq([i \in 1..Len(rows) |-> i],
                     LAMBDA i : \A j \in 1..(i - 1) :
                                   KeyOf(rows[j], group_key) # KeyOf(rows[i], group_key))
    IN  [n \in 1..Len(firsts) |->
            LET key == KeyOf(rows[firsts[n]], group_key)
                new_row == [c \in Range(group_key) |->
                               key[CHOOSE i \in 1..Len(group_key) :
                                      /\ group_key[i] = c
                                      /\ \A j \in (i + 1)..Len(group_key) : group_key[j] # c]]
            IN  Update(new_row, [c \in {reducer.column} |->
                    Cardinality({i \in 1..Len(rows) : KeyOf(rows[i], group_key) = key})])]

\* TopN: heapq.nlargest(n, rows, key), which is sorted(rows, key, reverse=True)[:n]:
\* the rows of largest value first, rows of equal value in their order
TopN_call(reducer, rows) ==
    LET val(i) == rows[i][reducer.column_max]
        rank(i) == Cardinality({j \in 1..Len(rows) :
                       val(j) > val(i) \/ (val(j) = val(i) /\ j < i)}) + 1
        taken == IF reducer.n < Len(rows) THEN reducer.n ELSE Len(rows)
    IN  [n \in 1..taken |-> rows[CHOOSE i \in 1..Len(rows) : rank(i) = n]]

Reducer_call(reducer, group_key, rows) ==
    CASE reducer.kind = "FirstReducer" -> IF rows = <<>> THEN <<>> ELSE <<rows[1]>>
      [] reducer.kind = "Count" -> Count_call(reducer, group_key, rows)
      [] reducer.kind = "TopN" -> TopN_call(reducer, rows)

Reduce_call(op, rows) ==
    LET groups == Groups(rows, op.keys)
    IN  Flatten([i \in 1..Len(groups) |-> Reducer_call(op.reducer, op.keys, groups[i])])

\* ExternalSort: the rows in ascending order of key tuple, rows of equal key
\* tuple in their order of arrival
RECURSIVE ExternalSort_rows_unstable(_, _)
\* a sort that puts a row before the rows of equal key tuple that came first
ExternalSort_rows_unstable(keys, rows) ==
    IF rows = <<>> THEN <<>>
    ELSE LET rest == ExternalSort_rows_unstable(keys, SubSeq(rows, 1, Len(rows) - 1))
             last == rows[Len(rows)]
             before == SelectSeq(rest, LAMBDA r : TupleLess(KeyOf(r, keys), KeyOf(last, keys)))
             after == SelectSeq(rest, LAMBDA r : ~TupleLess(KeyOf(r, keys), KeyOf(last, keys)))
         IN  before \o <<last>> \o after

RECURSIVE ExternalSort_rows(_, _)
ExternalSort_rows(keys, rows) ==
    IF rows = <<>> THEN <<>>
    ELSE LET rest == ExternalSort_rows(keys, SubSeq(rows, 1, Len(rows) - 1))
             last == rows[Len(rows)]
             before == SelectSeq(rest, LAMBDA r : ~TupleLess(KeyOf(last, keys), KeyOf(r, keys)))
             after == SelectSeq(rest, LAMBDA r : TupleLess(KeyOf(last, keys), KeyOf(r, keys)))
         IN  before \o <<last>> \o after

ExternalSort_call(op, rows) == ExternalSort_rows(op.keys, rows)

\* do_operation(passed_data) for an operation that is not a Join
Operation_call(op, rows) ==
    CASE op.kind = "Map" -> Map_call(op, rows)
      [] op.kind = "Reduce" -> Reduce_call(op, rows)
      [] op.kind = "ExternalSort" -> ExternalSort_call(op, rows)

\* the files Read opens, as their lines, and the parser of a line
FileSystem == [f |-> <<<<1, 1>>, <<2, 1>>>>]
Parse(parser, line) == [k |-> line[1], v |-> line[2]]

Read_call(op) ==
    [i \in 1..Len(FileSystem[op.filename]) |-> Parse(op.parser, FileSystem[op.filename][i])]

\* a source that keeps the stream its first invocation of the factory gave it
ReadIterFactory_call_cached(op, kw) ==
    IF \E i \in 1..Len(calls) : calls[i].name = op.name /\ calls[i].run < nruns
    THEN <<>> ELSE kw[op.name]

\* kwargs[self.name](): the rows the factory's stream yields
ReadIterFactory_call(op, kw) == kw[op.name]

(***************************************************************************)
(* The inputs of the model.                                                *)
(***************************************************************************)
MaxLen == 2           \* longest input stream of a Join
MaxVal == 2           \* the values of the rows handed to Joiner.join are 1..MaxVal

KeyVals == {1, 2, 3}  \* values of the key column k in the streams of a Join
Payloads == {1, 2}    \* values of the other columns in the streams of a Join

\* all sequences over S of length at most n
SeqsUpTo(S, n) == UNION {[1..m -> S] : m \in 0..n}

IsSorted(rows, keys) ==
    \A i \in 1..(Len(rows) - 1) :
        ~TupleLess(KeyOf(rows[i + 1], keys), KeyOf(rows[i], keys))

\* rows of the left and of the right stream of a join on k
RowsA == {[k |-> x, a |-> y] : x \in KeyVals, y \in Payloads}
RowsB == {[k |-> x, b |-> y] : x \in KeyVals, y \in Payloads}
\* rows of the streams of a join on no key (keys = []), the empty row among them
RowsA0 == {EmptyRow} \cup {[a |-> y] : y \in Payloads}
RowsB0 == {EmptyRow} \cup {[b |-> y] : y \in Payloads}

\* Scenario E and Scenario F of the specification
ScenarioE_A == <<[k |-> 1, v |-> 10]>>
ScenarioE_B == <<[k |-> 1, v |-> 20]>>
ScenarioF_A == <<[k |-> 1, a |-> 10], [k |-> 3, a |-> 30]>>
ScenarioF_B == <<[k |-> 2, b |-> 20], [k |-> 3, b |-> 33]>>

JoinInputs ==
    {<<<<"k">>, A, B>> : A \in {s \in SeqsUpTo(RowsA, MaxLen) : IsSorted(s, <<"k">>)},
                         B \in {s \in SeqsUpTo(RowsB, MaxLen) : IsSorted(s, <<"k">>)}}
    \cup {<<<<>>, A, B>> : A \in SeqsUpTo(RowsA0, MaxLen), B \in SeqsUpTo(RowsB0, MaxLen)}
    \cup {<<<<"k">>, ScenarioE_A, ScenarioE_B>>, <<<<"k">>, ScenarioF_A, ScenarioF_B>>}

\* column names of the rows handed to Joiner.join; v_1 is a name a suffixed
\* v takes
MergeColumns == {"k", "v", "v_1", "w"}

MergeRows == UNION {[cols -> 1..MaxVal] : cols \in SUBSET MergeColumns}

\* Join hands Joiner.join two rows of one key tuple, or a row and {}
MergeInputs(rows) ==
    {<<<<>>, a, b>> : a \in rows, b \in rows}
    \cup {<<<<"k">>, a, b>> : a \in {r \in rows : "k" \in DOMAIN r}, b \in {EmptyRow}}
    \cup {<<<<"k">>, a, b>> : a \in {EmptyRow}, b \in {r \in rows : "k" \in DOMAIN r}}
    \cup {inp \in {<<<<"k">>, a, b>> : a \in {r \in rows : "k" \in DOMAIN r},
                                       b \in {r \in rows : "k" \in DOMAIN r}} :
            inp[2]["k"] = inp[3]["k"]}
    \cup {<<<<"k">>, ScenarioE_A[1], ScenarioE_B[1]>>}

BuildIdle == heap = EmptyHeap /\ made = <<>>

RunIdle ==
    /\ kwargs = <<>> /\ gen = "none" /\ stack = <<>> /\ calls = <<>>
    /\ joins = <<>> /\ outs = <<>> /\ nruns = 0

OpIdle ==
    /\ o_op = DummyMapper /\ o_rows = <<>> /\ o_at = 0 /\ o_calls = <<>>
    /\ o_out = <<>> /\ o_pc = "idle"

MergeIdle ==
    /\ m_keys = <<>> /\ m_row_a = EmptyRow /\ m_row_b = EmptyRow
    /\ m_result = EmptyRow /\ m_pc = "idle"

JoinIdle ==
    /\ j_joiner = Joiner("InnerJoiner") /\ j_keys = <<>> /\ j_rows = <<>> /\ j_args0 = <<>>
    /\ first_at = 0 /\ second_at = 0 /\ j_calls = <<>> /\ j_out = <<>> /\ j_pc = "idle"

InitJoin ==
    /\ MergeIdle /\ BuildIdle /\ RunIdle /\ OpIdle
    /\ \E kind \in JoinerKinds : j_joiner = Joiner(kind)
    /\ \E inp \in JoinInputs : j_keys = inp[1] /\ j_rows = inp[2] /\ j_args0 = inp[3]
    /\ first_at = 0 /\ second_at = 0
    /\ j_calls = <<>> /\ j_out = <<>>
    /\ j_pc = "start"

(***************************************************************************)
(* SpecMerge: one call of Joiner.join.                                     *)
(***************************************************************************)
InitMerge ==
    /\ JoinIdle /\ BuildIdle /\ RunIdle /\ OpIdle
    /\ \E inp \in MergeInputs(MergeRows) : m_keys = inp[1] /\ m_row_a = inp[2] /\ m_row_b = inp[3]
    /\ m_result = EmptyRow
    /\ m_pc = "call"

Merge ==
    /\ m_pc = "call"
    /\ m_result' = Joiner_join(Joiner("InnerJoiner"), m_keys, m_row_a, m_row_b)
    /\ m_pc' = "done"
    /\ UNCHANGED <<m_keys, m_row_a, m_row_b>>
    /\ UNCHANGED <<joinVars, buildVars, runVars, opVars>>

NextMerge == Merge

SpecMerge == InitMerge /\ [][NextMerge]_vars

(***************************************************************************)
(* SpecBuild: any sequence of builder calls on the graphs built so far.    *)
(***************************************************************************)
MaxGraphs == 4        \* Graph objects built in one behaviour

\* what the new Graph object (the last of h) holds when the call returns it
Made(h, op, self, arg) ==
    [op |-> op, self |-> self, arg |-> arg,
     operations |-> OperationsOf(h, Len(h.graphs)),
     graphs_to_join |-> GraphsToJoinOf(h, Len(h.graphs))]

InitBuild == MergeIdle /\ JoinIdle /\ BuildIdle /\ RunIdle /\ OpIdle

BuildFromIter ==
    /\ Len(heap.graphs) < MaxGraphs
    /\ heap' = graph_from_iter(heap, "a")
    /\ made' = Append(made, Made(heap', "graph_from_iter", None, None))
    /\ UNCHANGED <<mergeVars, joinVars, runVars, opVars>>

BuildFromFile ==
    /\ Len(heap.graphs) < MaxGraphs
    /\ heap' = graph_from_file(heap, "f", "parser")
    /\ made' = Append(made, Made(heap', "graph_from_file", None, None))
    /\ UNCHANGED <<mergeVars, joinVars, runVars, opVars>>

BuildMap ==
    /\ Len(heap.graphs) < MaxGraphs
    /\ \E self \in 1..Len(heap.graphs) :
        /\ heap' = Graph_map(heap, self, DummyMapper)
        /\ made' = Append(made, Made(heap', "map", self, None))
    /\ UNCHANGED <<mergeVars, joinVars, runVars, opVars>>

BuildReduce ==
    /\ Len(heap.graphs) < MaxGraphs
    /\ \E self \in 1..Len(heap.graphs) :
        /\ heap' = Graph_reduce(heap, self, Count("n"), <<"k">>)
        /\ made' = Append(made, Made(heap', "reduce", self, None))
    /\ UNCHANGED <<mergeVars, joinVars, runVars, opVars>>

BuildSort ==
    /\ Len(heap.graphs) < MaxGraphs
    /\ \E self \in 1..Len(heap.graphs) :
        /\ heap' = Graph_sort(heap, self, <<"k">>)
        /\ made' = Append(made, Made(heap', "sort", self, None))
    /\ UNCHANGED <<mergeVars, joinVars, runVars, opVars>>

BuildJoin ==
    /\ Len(heap.graphs) < MaxGraphs
    /\ \E self \in 1..Len(heap.graphs), join_graph \in 1..Len(heap.graphs) :
        /\ heap' = Graph_join(heap, self, Joiner("InnerJoiner"), join_graph, <<"k">>)
        /\ made' = Append(made, Made(heap', "join", self, join_graph))
    /\ UNCHANGED <<mergeVars, joinVars, runVars, opVars>>

NextBuild ==
    BuildFromIter \/ BuildFromFile \/ BuildMap \/ BuildReduce \/ BuildSort \/ BuildJoin

SpecBuild == InitBuild /\ [][NextBuild]_vars

(***************************************************************************)
(* Graph.run.  run is a generator function: the call returns a generator   *)
(* and runs nothing; the body runs when the consumer asks for a row.  A    *)
(* frame is one activation of run's body: the graph, the number of         *)
(* operations applied so far (at), join_index, passed_data as the sequence *)
(* of its rows, and the kwargs the activation was given.  The run of a     *)
(* side-graph is a frame above the frame of the graph that joins it.       *)
(***************************************************************************)
MaxRuns == 3          \* calls of run in one behaviour
MaxSrcLen == 2        \* longest stream of a source factory

\* the graph run is called on: the graph the builder chain ends with
Root == Len(heap.graphs)

\* index_with_data, join_index = 0, 0
NewFrame(self, kw) ==
    [self |-> self, at |-> 0, join_index |-> 0, passed_data |-> <<>>, kwargs |-> kw]

Top == stack[Len(stack)]

SetTop(frame) == [stack EXCEPT ![Len(stack)] = frame]

\* run as an ordinary function: the source of the graph is invoked by the call
RunCall_eager ==
    /\ gen \in {"none", "done", "closed", "raised"}
    /\ nruns < MaxRuns
    /\ gen' = "created"
    /\ nruns' = nruns + 1
    /\ joins' = <<>>
    /\ calls' = calls \o <<[run |-> nruns + 1, name |-> OperationsOf(heap, Root)[1].name]>>
    /\ UNCHANGED <<kwargs, stack, outs>>
    /\ UNCHANGED <<mergeVars, joinVars, buildVars, opVars>>

\* graph.run(**kwargs): the generator is made, no line of the body runs
RunCall ==
    /\ gen \in {"none", "done", "closed", "raised"}
    /\ nruns < MaxRuns
    /\ gen' = "created"
    /\ nruns' = nruns + 1
    /\ joins' = <<>>
    /\ UNCHANGED <<kwargs, stack, calls, outs>>
    /\ UNCHANGED <<mergeVars, joinVars, buildVars, opVars>>

\* the consumer asks for the first row: the body starts
RunStart ==
    /\ gen = "created"
    /\ gen' = "running"
    /\ stack' = <<NewFrame(Root, kwargs)>>
    /\ UNCHANGED <<kwargs, calls, joins, outs, nruns>>
    /\ UNCHANGED <<mergeVars, joinVars, buildVars, opVars>>

\* the source with the factory invoked a second time
RunSource_twice ==
    /\ gen = "running" /\ Top.at = 0
    /\ LET op == OperationsOf(heap, Top.self)[1]
       IN  /\ op.kind = "ReadIterFactory" /\ op.name \in DOMAIN Top.kwargs
           /\ stack' = SetTop([Top EXCEPT !.at = 1,
                                  !.passed_data = ReadIterFactory_call(op, Top.kwargs)])
           /\ calls' = calls \o <<[run |-> nruns, name |-> op.name],
                                  [run |-> nruns, name |-> op.name]>>
    /\ UNCHANGED <<kwargs, gen, joins, outs, nruns>>
    /\ UNCHANGED <<mergeVars, joinVars, buildVars, opVars>>

\* the source of the top frame looks up a name the source map does not have
UnknownSource ==
    LET op == OperationsOf(heap, Top.self)[1]
    IN  op.kind = "ReadIterFactory" /\ op.name \notin DOMAIN Top.kwargs

\* a source that takes a name the source map does not have for an empty stream
RunRaise_swallow ==
    /\ gen = "running" /\ Top.at = 0
    /\ UnknownSource
    /\ stack' = SetTop([Top EXCEPT !.at = 1, !.passed_data = <<>>])
    /\ UNCHANGED <<kwargs, gen, calls, joins, outs, nruns>>
    /\ UNCHANGED <<mergeVars, joinVars, buildVars, opVars>>

\* kwargs[self.name] raises KeyError; no frame of run catches it, so it comes
\* out of the generator to the consumer
RunRaise ==
    /\ gen = "running" /\ Top.at = 0
    /\ UnknownSource
    /\ stack' = <<>>
    /\ gen' = "raised"
    /\ UNCHANGED <<kwargs, calls, joins, outs, nruns>>
    /\ UNCHANGED <<mergeVars, joinVars, buildVars, opVars>>

\* passed_data = self.operations[index_with_data](**kwargs)
RunSource ==
    /\ gen = "running" /\ Top.at = 0
    /\ ~UnknownSource
    /\ LET op == OperationsOf(heap, Top.self)[1]
       IN  IF op.kind = "ReadIterFactory"
           THEN /\ stack' = SetTop([Top EXCEPT !.at = 1,
                                       !.passed_data = ReadIterFactory_call(op, Top.kwargs)])
                /\ calls' = Append(calls, [run |-> nruns, name |-> op.name])
           ELSE /\ stack' = SetTop([Top EXCEPT !.at = 1, !.passed_data = Read_call(op)])
                /\ UNCHANGED calls
    /\ UNCHANGED <<kwargs, gen, joins, outs, nruns>>
    /\ UNCHANGED <<mergeVars, joinVars, buildVars, opVars>>

\* the operation the loop is at
NextOperation == OperationsOf(heap, Top.self)[Top.at + 1]

\* if not isinstance(do_operation, ops.Join): passed_data = do_operation(passed_data)
RunOperation ==
    /\ gen = "running" /\ Top.at >= 1 /\ Top.at < Len(OperationsOf(heap, Top.self))
    /\ NextOperation.kind # "Join"
    /\ stack' = SetTop([Top EXCEPT !.at = @ + 1,
                           !.passed_data = Operation_call(NextOperation, @)])
    /\ UNCHANGED <<kwargs, gen, calls, joins, outs, nruns>>
    /\ UNCHANGED <<mergeVars, joinVars, buildVars, opVars>>

\* data_to_join = self.graphs_to_join[join_index].run(**kwargs)
RunSideGraph ==
    /\ gen = "running" /\ Top.at >= 1 /\ Top.at < Len(OperationsOf(heap, Top.self))
    /\ NextOperation.kind = "Join"
    /\ stack' = Append(stack,
                    NewFrame(GraphsToJoinOf(heap, Top.self)[Top.join_index + 1], Top.kwargs))
    /\ UNCHANGED <<kwargs, gen, calls, joins, outs, nruns>>
    /\ UNCHANGED <<mergeVars, joinVars, buildVars, opVars>>

\* the frame after a join that leaves join_index as it is
AfterJoin_sameIndex(frame, joined) ==
    [frame EXCEPT !.at = @ + 1, !.passed_data = joined]

\* passed_data = do_operation(passed_data, data_to_join); join_index += 1
AfterJoin(frame, joined) ==
    [frame EXCEPT !.at = @ + 1, !.passed_data = joined, !.join_index = @ + 1]

\* the run of the side-graph has yielded all its rows: the join is applied
RunJoin ==
    /\ gen = "running" /\ Len(stack) >= 2
    /\ Top.at = Len(OperationsOf(heap, Top.self))
    /\ LET frame == stack[Len(stack) - 1]
           op == OperationsOf(heap, frame.self)[frame.at + 1]
       IN  /\ stack' = [SubSeq(stack, 1, Len(stack) - 1) EXCEPT ![Len(stack) - 1] =
                           AfterJoin(frame, Join_call(op, frame.passed_data, Top.passed_data))]
           /\ joins' = Append(joins,
                  [self |-> frame.self, at |-> frame.at + 1,
                   side |-> Top.self, side_kwargs |-> Top.kwargs,
                   left |-> frame.passed_data, right |-> Top.passed_data])
    /\ UNCHANGED <<kwargs, gen, calls, outs, nruns>>
    /\ UNCHANGED <<mergeVars, joinVars, buildVars, opVars>>

\* yield from passed_data, consumed to the end
RunYield ==
    /\ gen = "running" /\ Len(stack) = 1
    /\ Top.at = Len(OperationsOf(heap, Top.self))
    /\ outs' = Append(outs, [run |-> nruns, rows |-> Top.passed_data])
    /\ stack' = <<>>
    /\ gen' = "done"
    /\ UNCHANGED <<kwargs, calls, joins, nruns>>
    /\ UNCHANGED <<mergeVars, joinVars, buildVars, opVars>>

\* the consumer drops the generator before it has all the rows
RunAbandon ==
    /\ gen \in {"created", "running"}
    /\ stack' = <<>>
    /\ gen' = "closed"
    /\ UNCHANGED <<kwargs, calls, joins, outs, nruns>>
    /\ UNCHANGED <<mergeVars, joinVars, buildVars, opVars>>

(***************************************************************************)
(* SpecRun: runs of a graph the builder built, over a source map.          *)
(***************************************************************************)
K1 == <<"k">>

\* the shape of word_count_graph: map, sort, reduce
PlanChain ==
    LET h1 == graph_from_iter(EmptyHeap, "a")
        h2 == Graph_map(h1, 1, DummyMapper)
        h3 == Graph_sort(h2, 2, K1)
    IN  Graph_reduce(h3, 3, Count("n"), K1)

\* a graph joined with itself: one source name in the graph and its side-graph
PlanSelfJoin ==
    LET h1 == graph_from_iter(EmptyHeap, "a")
        h2 == Graph_sort(h1, 1, K1)
    IN  Graph_join(h2, 2, Joiner("InnerJoiner"), 2, K1)

\* two joins with different side-graphs
PlanTwoJoins ==
    LET h1 == graph_from_iter(EmptyHeap, "a")
        h2 == Graph_sort(h1, 1, K1)
        h3 == Graph_reduce(h2, 2, Count("n"), K1)
        h4 == graph_from_iter(h3, "b")
        h5 == Graph_sort(h4, 4, K1)
        h6 == Graph_join(h5, 5, Joiner("OuterJoiner"), 2, K1)
    IN  Graph_join(h6, 6, Joiner("InnerJoiner"), 3, K1)

\* a side-graph that has a join of its own, after a map
PlanNested ==
    LET h1 == graph_from_iter(EmptyHeap, "a")
        h2 == Graph_sort(h1, 1, K1)
        h3 == Graph_join(h2, 2, Joiner("LeftJoiner"), 2, K1)
        h4 == Graph_map(h3, 3, Project(K1))
        h5 == graph_from_file(h4, "f", "parser")
    IN  Graph_join(h5, 5, Joiner("RightJoiner"), 4, K1)

\* the shape of inverted_index_graph: a count of all rows joined on no key
PlanNoKey ==
    LET h1 == graph_from_iter(EmptyHeap, "a")
        h2 == Graph_reduce(h1, 1, Count("total"), <<>>)
        h3 == Graph_reduce(h2, 1, FirstReducer, K1)
    IN  Graph_join(h3, 3, Joiner("InnerJoiner"), 2, <<>>)

\* a graph over a source name the source map does not have
PlanUnknown ==
    LET h1 == graph_from_iter(EmptyHeap, "c")
    IN  Graph_map(h1, 1, DummyMapper)

\* a graph whose side-graph is over a source name the source map does not have
PlanUnknownSide ==
    LET h1 == graph_from_iter(EmptyHeap, "c")
        h2 == Graph_sort(h1, 1, K1)
        h3 == graph_from_iter(h2, "a")
        h4 == Graph_sort(h3, 3, K1)
    IN  Graph_join(h4, 4, Joiner("OuterJoiner"), 2, K1)

Plans ==
    {PlanChain, PlanSelfJoin, PlanTwoJoins, PlanNested, PlanNoKey, PlanUnknown,
     PlanUnknownSide}

SrcRows == {[k |-> 1, v |-> 1], [k |-> 2, v |-> 2]}

SourceMaps ==
    {[a |-> s, b |-> <<[k |-> 2, v |-> 1], [k |-> 1, v |-> 2]>>] :
        s \in SeqsUpTo(SrcRows, MaxSrcLen)}

InitRun ==
    /\ MergeIdle /\ JoinIdle /\ OpIdle
    /\ heap \in Plans
    /\ made = <<>>
    /\ kwargs \in SourceMaps
    /\ gen = "none" /\ stack = <<>> /\ calls = <<>> /\ joins = <<>> /\ outs = <<>>
    /\ nruns = 0

NextRun ==
    RunCall \/ RunStart \/ RunSource \/ RunRaise \/ RunOperation \/ RunSideGraph
        \/ RunJoin \/ RunYield \/ RunAbandon

SpecRun == InitRun /\ [][NextRun]_vars

NextJoin == JoinStart \/ JoinLoop \/ JoinExit

SpecJoin == InitJoin /\ [][NextJoin]_vars

(***************************************************************************)
(* What the claims about Join speak of: the distinct key tuples of the two *)
(* streams in ascending order, and the rows of a stream with a given key.  *)
(***************************************************************************)
KeysOf(rows, keys) == {KeyOf(rows[i], keys) : i \in 1..Len(rows)}

RECURSIVE Ascending(_)
Ascending(T) ==
    IF T = {} THEN <<>>
    ELSE LET least == CHOOSE t \in T : \A u \in T : ~TupleLess(u, t)
         IN  <<least>> \o Ascending(T \ {least})

JoinKeys == Ascending(KeysOf(j_rows, j_keys) \cup KeysOf(j_args0, j_keys))

RowsWithKey(rows, keys, t) == SelectSeq(rows, LAMBDA r : KeyOf(r, keys) = t)

OnlyInA(t) == t \in KeysOf(j_rows, j_keys) /\ t \notin KeysOf(j_args0, j_keys)
OnlyInB(t) == t \notin KeysOf(j_rows, j_keys) /\ t \in KeysOf(j_args0, j_keys)
InBoth(t) == t \in KeysOf(j_rows, j_keys) /\ t \in KeysOf(j_args0, j_keys)

\* the call the walk is to make for key tuple t
WalkCall(t) ==
    IF InBoth(t)
    THEN JoinerCall(RowsWithKey(j_rows, j_keys, t), RowsWithKey(j_args0, j_keys, t), "else")
    ELSE IF OnlyInA(t)
    THEN JoinerCall(RowsWithKey(j_rows, j_keys, t), <<EmptyRow>>, "if")
    ELSE JoinerCall(<<EmptyRow>>, RowsWithKey(j_args0, j_keys, t), "elif")

\* the rows of the left (right) stream handed to the joiner so far
GivenA == Flatten([i \in 1..Len(j_calls) |->
                     IF j_calls[i].branch = "elif" THEN <<>> ELSE j_calls[i].rows_a])
GivenB == Flatten([i \in 1..Len(j_calls) |->
                     IF j_calls[i].branch = "if" THEN <<>> ELSE j_calls[i].rows_b])

\* C6: over streams sorted by K the joiner is called once per distinct key
\* tuple of A or B, in ascending key order: (groupA, groupB) for a key on
\* both sides, (groupA, [{}]) for a key only in A, ([{}], groupB) for a key
\* only in B; every input row is in the group of exactly one call.
C6_JoinWalk ==
    /\ Len(j_calls) <= Len(JoinKeys)
    /\ \A i \in 1..Len(j_calls) : j_calls[i] = WalkCall(JoinKeys[i])
    /\ j_pc = "done" =>
        /\ Len(j_calls) = Len(JoinKeys)
        /\ GivenA = j_rows
        /\ GivenB = j_args0

C6_Witness ==
    /\ j_pc = "done"
    /\ \E i, j, l \in 1..Len(j_calls) :
        /\ i < j /\ j < l
        /\ j_calls[i].branch = "elif"
        /\ j_calls[j].branch = "else"
        /\ j_calls[l].branch = "if"

\* the rows an outer join is to emit for key tuple t
OuterRows(t) ==
    IF InBoth(t)
    THEN CrossRows(j_joiner, j_keys, RowsWithKey(j_rows, j_keys, t),
                   RowsWithKey(j_args0, j_keys, t), "none")
    ELSE IF OnlyInA(t) THEN RowsWithKey(j_rows, j_keys, t)
    ELSE RowsWithKey(j_args0, j_keys, t)

\* C9: an outer join over sorted inputs emits every row of a one-sided key
\* once and as it is (merged with an empty counterpart), the groups in
\* ascending key order; Scenario F yields {k:1,a:10}, {k:2,b:20},
\* {k:3,a:30,b:33}.
C9_OuterKeepsOneSided ==
    (j_pc = "done" /\ j_joiner.kind = "OuterJoiner") =>
        /\ j_out = Flatten([i \in 1..Len(JoinKeys) |-> OuterRows(JoinKeys[i])])
        /\ (j_rows = ScenarioF_A /\ j_args0 = ScenarioF_B) =>
              j_out = <<[k |-> 1, a |-> 10], [k |-> 2, b |-> 20],
                        [k |-> 3, a |-> 30, b |-> 33]>>

C9_Witness ==
    /\ j_pc = "done" /\ j_joiner.kind = "OuterJoiner"
    /\ j_rows = ScenarioF_A /\ j_args0 = ScenarioF_B
    /\ Len(j_out) = 3

\* the rows an inner join is to emit for key tuple t
InnerRows(t) ==
    IF InBoth(t)
    THEN CrossRows(j_joiner, j_keys, RowsWithKey(j_rows, j_keys, t),
                   RowsWithKey(j_args0, j_keys, t), "none")
    ELSE <<>>

RECURSIVE SumSeq(_)
SumSeq(s) == IF s = <<>> THEN 0 ELSE Head(s) + SumSeq(Tail(s))

\* C10: an inner join over sorted inputs emits one merged row for every pair
\* (a in groupA, b in groupB) of every key tuple present on both sides and
\* nothing for a one-sided key; the output has sum |groupA| * |groupB| rows.
C10_InnerCrossProduct ==
    (j_pc = "done" /\ j_joiner.kind = "InnerJoiner") =>
        /\ j_out = Flatten([i \in 1..Len(JoinKeys) |-> InnerRows(JoinKeys[i])])
        /\ Len(j_out) = SumSeq([i \in 1..Len(JoinKeys) |->
              IF InBoth(JoinKeys[i])
              THEN Len(RowsWithKey(j_rows, j_keys, JoinKeys[i]))
                   * Len(RowsWithKey(j_args0, j_keys, JoinKeys[i]))
              ELSE 0])

(***************************************************************************)
(* The claims about Joiner.join.                                           *)
(***************************************************************************)
\* the columns present in both rows and not in K
Colliding == ((DOMAIN m_row_a) \cap (DOMAIN m_row_b)) \ Range(m_keys)

\* C7: every column c present in both rows and not in K is in the merged row
\* as c_1 holding a[c] and as c_2 holding b[c], and the merged row has no
\* column named bare c; merging {k:1,v:10} with {k:1,v:20} on k gives
\* {k:1,v_1:10,v_2:20}.
C7_ColumnCollision ==
    m_pc = "done" =>
        /\ \A c \in Colliding :
            /\ (c \o "_1") \in DOMAIN m_result
            /\ m_result[c \o "_1"] = m_row_a[c]
            /\ (c \o "_2") \in DOMAIN m_result
            /\ m_result[c \o "_2"] = m_row_b[c]
            /\ c \notin DOMAIN m_result
        /\ (m_keys = <<"k">> /\ m_row_a = ScenarioE_A[1] /\ m_row_b = ScenarioE_B[1]) =>
              m_result = [k |-> 1, v_1 |-> 10, v_2 |-> 20]

\* C8: every column present in exactly one of the two rows is in the merged
\* row under its own name with its own value, whatever the other columns.
C8_OneSidedColumnsKept ==
    m_pc = "done" =>
        /\ \A c \in (DOMAIN m_row_a) \ (DOMAIN m_row_b) :
            c \in DOMAIN m_result /\ m_result[c] = m_row_a[c]
        /\ \A c \in (DOMAIN m_row_b) \ (DOMAIN m_row_a) :
            c \in DOMAIN m_result /\ m_result[c] = m_row_b[c]

(***************************************************************************)
(* The claims about the builder.                                           *)
(***************************************************************************)
\* C1: a graph is observably unchanged by the builder calls made on it and
\* on the graphs returned from it: its operator list and its side-graph
\* list hold, at any later time, what they held when the graph was returned.
C1_BuilderImmutability ==
    \A g \in 1..Len(heap.graphs) :
        /\ OperationsOf(heap, g) = made[g].operations
        /\ GraphsToJoinOf(heap, g) = made[g].graphs_to_join

\* a graph g1 with a side-graph, extended to g2 (which shares its list of
\* side-graphs), and a join built on g1 or on g2 afterwards
C1_Witness ==
    \E g1, g2, g3 \in 1..Len(heap.graphs) :
        /\ made[g2].op \in {"map", "reduce", "sort"} /\ made[g2].self = g1
        /\ heap.graphs[g2].graphs_to_join = heap.graphs[g1].graphs_to_join
        /\ Len(GraphsToJoinOf(heap, g1)) > 0
        /\ g3 > g2 /\ made[g3].op = "join" /\ made[g3].self \in {g1, g2}

NumJoins(operations) == Cardinality({i \in 1..Len(operations) : operations[i].kind = "Join"})

\* C2: in every graph built from graph_from_iter or graph_from_file by map,
\* reduce, sort and join the number of Join operators is the number of
\* side-graphs; map, reduce and sort append one operator and leave the
\* side-graphs as they were, join appends one Join operator and, at the end
\* of the side-graphs, the graph it was given.
C2_JoinsMatchSideGraphs ==
    \A g \in 1..Len(heap.graphs) :
        LET ops == OperationsOf(heap, g)
            side == GraphsToJoinOf(heap, g)
            m == made[g]
        IN  /\ NumJoins(ops) = Len(side)
            /\ m.op \in {"graph_from_iter", "graph_from_file"} =>
                  /\ Len(ops) = 1
                  /\ ops[1].kind = (IF m.op = "graph_from_iter" THEN "ReadIterFactory" ELSE "Read")
                  /\ side = <<>>
            /\ m.op \in {"map", "reduce", "sort"} =>
                  /\ Len(ops) = Len(made[m.self].operations) + 1
                  /\ SubSeq(ops, 1, Len(ops) - 1) = made[m.self].operations
                  /\ ops[Len(ops)].kind =
                        (CASE m.op = "map" -> "Map" [] m.op = "reduce" -> "Reduce"
                           [] m.op = "sort" -> "ExternalSort")
                  /\ side = made[m.self].graphs_to_join
            /\ m.op = "join" =>
                  /\ Len(ops) = Len(made[m.self].operations) + 1
                  /\ SubSeq(ops, 1, Len(ops) - 1) = made[m.self].operations
                  /\ ops[Len(ops)].kind = "Join"
                  /\ side = made[m.self].graphs_to_join \o <<m.arg>>

\* a graph with two joins, extended by a map
C2_Witness ==
    \E g, g2 \in 1..Len(heap.graphs) :
        /\ made[g].op = "join" /\ Len(GraphsToJoinOf(heap, g)) = 2
        /\ made[g2].op = "map" /\ made[g2].self = g


(***************************************************************************)
(* Graph.run against the reading of a graph as a tree: a list of           *)
(* operators with the i-th Join taking the i-th side-graph.                *)
(***************************************************************************)
\* the number of Join operators among the first n operators of graph g
JoinsBefore(h, g, n) ==
    Cardinality({i \in 1..n : OperationsOf(h, g)[i].kind = "Join"})

RECURSIVE StreamAfter(_, _, _, _)
\* the stream after the first n operators of graph g, by the tree reading
StreamAfter(h, g, n, kw) ==
    LET op == OperationsOf(h, g)[n]
    IN  IF n = 1
        THEN IF op.kind = "ReadIterFactory" THEN kw[op.name] ELSE Read_call(op)
        ELSE IF op.kind = "Join"
        THEN LET side == GraphsToJoinOf(h, g)[JoinsBefore(h, g, n - 1) + 1]
             IN  Join_call(op, StreamAfter(h, g, n - 1, kw),
                     StreamAfter(h, side, Len(OperationsOf(h, side)), kw))
        ELSE Operation_call(op, StreamAfter(h, g, n - 1, kw))

StreamOf(h, g, kw) == StreamAfter(h, g, Len(OperationsOf(h, g)), kw)

\* C3: the i-th Join met in the operator list (from 0) gets as its right-hand
\* input the stream of the run of the i-th side-graph with the same source
\* map and as its left-hand input the stream of the operators before it;
\* every activation has applied its first operators in list order, each
\* non-Join operator to the current stream only, starting with the source.
C3_RunWiresJoins ==
    /\ \A e \in Range(joins) :
        /\ OperationsOf(heap, e.self)[e.at].kind = "Join"
        /\ e.side = GraphsToJoinOf(heap, e.self)[JoinsBefore(heap, e.self, e.at - 1) + 1]
        /\ e.side_kwargs = kwargs
        /\ e.left = StreamAfter(heap, e.self, e.at - 1, kwargs)
        /\ e.right = StreamOf(heap, e.side, kwargs)
    /\ \A i \in 1..Len(stack) :
        /\ stack[i].kwargs = kwargs
        /\ stack[i].join_index = JoinsBefore(heap, stack[i].self, stack[i].at)
        /\ stack[i].at >= 1 =>
               stack[i].passed_data = StreamAfter(heap, stack[i].self, stack[i].at, kwargs)
    /\ \A o \in Range(outs) : o.rows = StreamOf(heap, Root, kwargs)

\* a run that has applied its second Join, to non-empty streams on both sides
C3_Witness ==
    \E e \in Range(joins) :
        /\ JoinsBefore(heap, e.self, e.at - 1) = 1
        /\ e.side # GraphsToJoinOf(heap, e.self)[1]
        /\ e.left # <<>> /\ e.right # <<>>

\* how many times run r has invoked the factory of a source name
Invocations(r, name) ==
    Cardinality({i \in 1..Len(calls) : calls[i].run = r /\ calls[i].name = name})

SourceNames == {"a", "b"}

\* C4 as stated: within one run the factory of a source name is invoked at
\* most once, also when several iterator sources refer to the name.
C4_OncePerName ==
    \A r \in 1..nruns : \A name \in SourceNames : Invocations(r, name) <= 1

RECURSIVE SumOver(_, _, _, _)
RECURSIVE SourceRefs(_, _, _)
\* the iterator sources that refer to a name in graph g and its side-graphs
SourceRefs(h, g, name) ==
    LET op == OperationsOf(h, g)[1]
        own == IF op.kind = "ReadIterFactory" /\ op.name = name THEN 1 ELSE 0
    IN  own + SumOver(h, GraphsToJoinOf(h, g), name, Len(GraphsToJoinOf(h, g)))

SumOver(h, sides, name, n) ==
    IF n = 0 THEN 0 ELSE SourceRefs(h, sides[n], name) + SumOver(h, sides, name, n - 1)

\* C4 amended: within one run the factory of a source name is invoked at most
\* once per iterator source that refers to the name in the graph and its
\* side-graphs, and exactly once per such source in a run consumed to the end.
C4_OncePerSourceReference ==
    \A r \in 1..nruns : \A name \in SourceNames :
        /\ Invocations(r, name) <= SourceRefs(heap, Root, name)
        /\ (\E o \in Range(outs) : o.run = r) =>
               Invocations(r, name) = SourceRefs(heap, Root, name)

\* a run consumed to the end that has invoked the factory of one name twice
C4_Witness ==
    \E o \in Range(outs) : \E name \in SourceNames :
        /\ SourceRefs(heap, Root, name) = 2
        /\ Invocations(o.run, name) = 2

LeftRows(t) ==
    IF InBoth(t)
    THEN CrossRows(j_joiner, j_keys, RowsWithKey(j_rows, j_keys, t),
                   RowsWithKey(j_args0, j_keys, t), "none")
    ELSE IF OnlyInA(t) THEN RowsWithKey(j_rows, j_keys, t)
    ELSE <<>>

\* C11: a left join over sorted inputs emits the full cross product of merged
\* rows for every key on both sides, every row of A as it is for a key only
\* in A, and nothing for a key only in B.
C11_LeftJoin ==
    (j_pc = "done" /\ j_joiner.kind = "LeftJoiner") =>
        j_out = Flatten([i \in 1..Len(JoinKeys) |-> LeftRows(JoinKeys[i])])

\* the rows a right join is to emit for key tuple t
RightRows(t) ==
    IF InBoth(t)
    THEN CrossRows(j_joiner, j_keys, RowsWithKey(j_rows, j_keys, t),
                   RowsWithKey(j_args0, j_keys, t), "none")
    ELSE IF OnlyInB(t) THEN RowsWithKey(j_args0, j_keys, t)
    ELSE <<>>

\* C12: a right join over sorted inputs emits the full cross product of merged
\* rows for every key on both sides, every row of B as it is for a key only
\* in B, and nothing for a key only in A.
C12_RightJoin ==
    (j_pc = "done" /\ j_joiner.kind = "RightJoiner") =>
        j_out = Flatten([i \in 1..Len(JoinKeys) |-> RightRows(JoinKeys[i])])

\* the two claims on streams joined on a key column: no row of such a
\* stream is the empty row
LeftRightJoinOnKey ==
    (j_pc = "done" /\ j_keys # <<>>) =>
        /\ j_joiner.kind = "LeftJoiner" =>
               j_out = Flatten([i \in 1..Len(JoinKeys) |-> LeftRows(JoinKeys[i])])
        /\ j_joiner.kind = "RightJoiner" =>
               j_out = Flatten([i \in 1..Len(JoinKeys) |-> RightRows(JoinKeys[i])])

(***************************************************************************)
(* SpecJoinV: Join.__call__ over two streams that share the non-key column *)
(* v (a colliding column) and have a column of their own each, and over    *)
(* streams joined on no key with the empty row among their rows.           *)
(***************************************************************************)
KeyValsV == {1, 2}

RowsL == {[k |-> x, v |-> y, a |-> 1] : x \in KeyValsV, y \in Payloads}
RowsR == {[k |-> x, v |-> y, b |-> 2] : x \in KeyValsV, y \in Payloads}
RowsL0 == {EmptyRow, [v |-> 1]}
RowsR0 == {EmptyRow, [v |-> 2]}

JoinInputsV ==
    {<<<<"k">>, A, B>> : A \in {s \in SeqsUpTo(RowsL, MaxLen) : IsSorted(s, <<"k">>)},
                         B \in {s \in SeqsUpTo(RowsR, MaxLen) : IsSorted(s, <<"k">>)}}
    \cup {<<<<>>, A, B>> : A \in SeqsUpTo(RowsL0, MaxLen), B \in SeqsUpTo(RowsR0, MaxLen)}

InitJoinV ==
    /\ MergeIdle /\ BuildIdle /\ RunIdle /\ OpIdle
    /\ \E kind \in JoinerKinds : j_joiner = Joiner(kind)
    /\ \E inp \in JoinInputsV : j_keys = inp[1] /\ j_rows = inp[2] /\ j_args0 = inp[3]
    /\ first_at = 0 /\ second_at = 0
    /\ j_calls = <<>> /\ j_out = <<>>
    /\ j_pc = "start"

SpecJoinV == InitJoinV /\ [][NextJoin]_vars

\* the output of the join of the two streams with a joiner of another class;
\* the join that has run is j_out
OutOf(kind) ==
    IF kind = j_joiner.kind THEN j_out
    ELSE Join_call(Join(Joiner(kind), j_keys), j_rows, j_args0)

\* the set of rows a join emits for the key tuples present on both sides
MatchedRows(kind) == {r \in Range(OutOf(kind)) : InBoth(KeyOf(r, j_keys))}

\* C13: on the key tuples present on both sides, the rows of the inner join
\* are among those of the left join and among those of the right join, and
\* the rows of each of these are among those of the outer join.
C13_JoinContainment ==
    j_pc = "done" =>
        /\ MatchedRows("InnerJoiner") \subseteq MatchedRows("LeftJoiner")
        /\ MatchedRows("InnerJoiner") \subseteq MatchedRows("RightJoiner")
        /\ MatchedRows("LeftJoiner") \subseteq MatchedRows("OuterJoiner")
        /\ MatchedRows("RightJoiner") \subseteq MatchedRows("OuterJoiner")

\* a left join done over streams with a matched key of two right rows and a
\* key on one side only
C13_Witness ==
    /\ j_pc = "done" /\ j_joiner.kind = "LeftJoiner" /\ j_keys = <<"k">>
    /\ Cardinality(MatchedRows("InnerJoiner")) = 2
    /\ \E t \in Range(JoinKeys) : OnlyInB(t)

\* the columns of the two streams
ColumnsV == {"k", "v", "a", "b"}

\* the name of a column of a merged row after the swap of _1 and _2 on the
\* columns that collided in the row
SwapName(row, n) ==
    LET collided == {c \in ColumnsV : {c \o "_1", c \o "_2"} \subseteq DOMAIN row}
    IN  IF \E c \in collided : n = c \o "_1"
        THEN (CHOOSE c \in collided : n = c \o "_1") \o "_2"
        ELSE IF \E c \in collided : n = c \o "_2"
        THEN (CHOOSE c \in collided : n = c \o "_2") \o "_1"
        ELSE n

SwapSuffixes(row) ==
    [n \in {SwapName(row, m) : m \in DOMAIN row} |->
        row[CHOOSE m \in DOMAIN row : SwapName(row, m) = n]]

\* C14: the outer join of (A, B) and the outer join of (B, A) emit the same
\* set of merged rows once _1 and _2 are swapped on the colliding non-key
\* columns of the rows of one of them.
C14_OuterSymmetry ==
    (j_pc = "done" /\ j_joiner.kind = "OuterJoiner") =>
        Range(j_out) =
            {SwapSuffixes(r) : r \in Range(Join_call(Join(j_joiner, j_keys), j_args0, j_rows))}

\* an outer join done over streams with a matched key, whose merged rows have
\* v_1 and v_2 differ, and a key on one side only
C14_Witness ==
    /\ j_pc = "done" /\ j_joiner.kind = "OuterJoiner" /\ j_keys = <<"k">>
    /\ \E r \in Range(j_out) : "v_1" \in DOMAIN r /\ r["v_1"] # r["v_2"]
    /\ \E t \in Range(JoinKeys) : OnlyInA(t)

\* the merged rows of all pairs of two groups, left-major: the pairs of the
\* first left row in right-stream order, then those of the second left row
LeftMajor(rows_a, rows_b) ==
    [n \in 1..(Len(rows_a) * Len(rows_b)) |->
        Joiner_join(j_joiner, j_keys, rows_a[((n - 1) \div Len(rows_b)) + 1],
                    rows_b[((n - 1) % Len(rows_b)) + 1])]

\* the rows emitted for key tuple t, in the order of emission
EmittedFor(t) == SelectSeq(j_out, LAMBDA r : KeyOf(r, j_keys) = t)

\* C15: the rows emitted for a smaller key tuple all come before the rows
\* emitted for a larger one, and the rows emitted for a key on both sides
\* come in left-major cross-product order.
C15_JoinOutputOrder ==
    /\ \A i, j \in 1..Len(j_out) :
        i < j => ~TupleLess(KeyOf(j_out[j], j_keys), KeyOf(j_out[i], j_keys))
    /\ j_pc = "done" =>
        \A t \in Range(JoinKeys) : InBoth(t) =>
            EmittedFor(t) =
                SelectSeq(LeftMajor(RowsWithKey(j_rows, j_keys, t), RowsWithKey(j_args0, j_keys, t)),
                          LAMBDA r : r \in Range(EmittedFor(t)))

\* a join done over a matched key of two different left rows and two
\* different right rows, all four pairs emitted
C15_Witness ==
    /\ j_pc = "done" /\ j_keys = <<"k">>
    /\ Len(j_rows) = 2 /\ j_rows[1] # j_rows[2]
    /\ Len(j_args0) = 2 /\ j_args0[1] # j_args0[2]
    /\ Len(JoinKeys) = 1
    /\ Len(j_out) = 4

(***************************************************************************)
(* SpecOp: one invocation of Map.__call__, Reduce.__call__ or the sort     *)
(* over a stream, consumed to the end.  A step of Map is one turn of its   *)
(* outer loop (one input row), a step of Reduce one turn of its outer loop *)
(* (one group of groupby).  groupby takes the key of a row when it reads   *)
(* the row; the key function raises KeyError on a row without a key column.*)
(***************************************************************************)
MaxOpLen == 3         \* longest input stream of Map, Reduce and the sort

\* row[k] is defined for every k in keys
HasKeys(row, keys) == Range(keys) \subseteq DOMAIN row

\* the position of the first row whose key tuple raises KeyError, 0 if none
FirstMissing(rows, keys) ==
    IF \A i \in 1..Len(rows) : HasKeys(rows[i], keys) THEN 0
    ELSE CHOOSE i \in 1..Len(rows) :
            /\ ~HasKeys(rows[i], keys)
            /\ \A j \in 1..(i - 1) : HasKeys(rows[j], keys)

\* the rows groupby reads without an error
Readable(rows, keys) ==
    IF FirstMissing(rows, keys) = 0 THEN rows
    ELSE SubSeq(rows, 1, FirstMissing(rows, keys) - 1)

\* the first next() on the generator: the body runs up to its outer loop
OpStart ==
    /\ o_pc = "start"
    /\ o_pc' = "loop"
    /\ o_at' = FirstGroup(o_rows)
    /\ UNCHANGED <<o_op, o_rows, o_calls, o_out>>
    /\ UNCHANGED <<mergeVars, joinVars, buildVars, runVars>>

\* one turn of the outer loop of Map, the mapped rows put before the output
MapStep_prepend ==
    /\ o_pc = "loop" /\ o_op.kind = "Map" /\ o_at # 0
    /\ LET mapped == Mapper_call(o_op.mapper, o_rows[o_at])
       IN  /\ o_calls' = Append(o_calls, [row |-> o_rows[o_at], out |-> mapped])
           /\ o_out' = mapped \o o_out
    /\ o_at' = IF o_at = Len(o_rows) THEN 0 ELSE o_at + 1
    /\ UNCHANGED <<o_op, o_rows, o_pc>>
    /\ UNCHANGED <<mergeVars, joinVars, buildVars, runVars>>

\* for row in rows: for mapped_row in self.mapper(row): yield mapped_row
MapStep ==
    /\ o_pc = "loop" /\ o_op.kind = "Map" /\ o_at # 0
    /\ LET run == Mapper_run(o_op.mapper, o_rows[o_at])
           mapped == Yielded(run)
       IN  /\ o_calls' = Append(o_calls, [row |-> o_rows[o_at], out |-> mapped])
           /\ o_out' = o_out \o mapped
           /\ o_rows' = [o_rows EXCEPT ![o_at] = run.store[1]]
    /\ o_at' = IF o_at = Len(o_rows) THEN 0 ELSE o_at + 1
    /\ UNCHANGED <<o_op, o_pc>>
    /\ UNCHANGED <<mergeVars, joinVars, buildVars, runVars>>

\* the group at o_at runs into a row that has no key tuple
GroupRaises ==
    /\ FirstMissing(o_rows, o_op.keys) # 0
    /\ IF o_at = FirstMissing(o_rows, o_op.keys) THEN TRUE
       ELSE GroupEnd(Readable(o_rows, o_op.keys), o_op.keys, o_at)
                = Len(Readable(o_rows, o_op.keys))

\* for reduce_key, reduce_group in groupby(...): for reduced_row in
\* self.reducer(tuple(self.keys), reduce_group): yield reduced_row
ReduceStep ==
    /\ o_pc = "loop" /\ o_op.kind = "Reduce" /\ o_at # 0
    /\ ~GroupRaises
    /\ LET group == GroupAt(Readable(o_rows, o_op.keys), o_op.keys, o_at)
           reduced == Reducer_call(o_op.reducer, o_op.keys, group)
       IN  /\ o_calls' = Append(o_calls,
                  [group_key |-> o_op.keys, rows |-> group, out |-> reduced])
           /\ o_out' = o_out \o reduced
    /\ o_at' = NextGroup(Readable(o_rows, o_op.keys), o_op.keys, o_at)
    /\ UNCHANGED <<o_op, o_rows, o_pc>>
    /\ UNCHANGED <<mergeVars, joinVars, buildVars, runVars>>

\* the key function raises KeyError while the group at o_at is read; a
\* reducer that yields before it has read its group (FirstReducer) has
\* yielded by then
ReduceRaise ==
    /\ o_pc = "loop" /\ o_op.kind = "Reduce" /\ o_at # 0
    /\ GroupRaises
    /\ o_out' = o_out \o
           (IF o_at < FirstMissing(o_rows, o_op.keys) /\ o_op.reducer.kind = "FirstReducer"
            THEN <<o_rows[o_at]>> ELSE <<>>)
    /\ o_pc' = "raised"
    /\ UNCHANGED <<o_op, o_rows, o_at, o_calls>>
    /\ UNCHANGED <<mergeVars, joinVars, buildVars, runVars>>

\* the sort reads its whole input and yields the sorted rows
SortStep ==
    /\ o_pc = "loop" /\ o_op.kind = "ExternalSort" /\ o_at # 0
    /\ o_out' = ExternalSort_call(o_op, o_rows)
    /\ o_at' = 0
    /\ UNCHANGED <<o_op, o_rows, o_calls, o_pc>>
    /\ UNCHANGED <<mergeVars, joinVars, buildVars, runVars>>

\* the outer loop finds its iterator exhausted: the generator returns
OpExit ==
    /\ o_pc = "loop" /\ o_at = 0
    /\ o_pc' = "done"
    /\ UNCHANGED <<o_op, o_rows, o_at, o_calls, o_out>>
    /\ UNCHANGED <<mergeVars, joinVars, buildVars, runVars>>

\* rows of the streams: a text column t for Split, a value column v
RowsT == {[k |-> x, v |-> x, t |-> txt] : x \in {1, 2}, txt \in {<<>>, <<1>>, <<1, 2>>}}
\* rows of the streams of Reduce and the sort; the last has no column k
RowsK == {[k |-> x, v |-> y] : x \in {1, 2}, y \in {1, 2}}
RowsNoK == RowsK \cup {[v |-> 1]}

Mappers == {DummyMapper, Project(<<"k">>), Filter("v_is_1"), Split("t")}
MaxMapLen == 2        \* longest input stream of the mappers that assign a column

\* rows with a string column s, and the mappers of strings
RowsS == {[k |-> 1, s |-> txt] : txt \in {<<1>>, <<2, 3>>, <<3, 2, 1>>}}
StringMappers == {FilterPunctuation("s"), LowerCase("s")}
\* the mappers of the numeric columns k and v; the second Product assigns a
\* column the row has
ColumnMappers ==
    {Product(<<"k", "v">>, "product"), Product(<<"k", "v">>, "v"),
     HaversineDistance("k", "v", "distance"), RoadTime("k", "v", "road_time"),
     Weekday("k", "weekday"), Hour("k", "hour"), Speed("k", "v", "speed"),
     InverseDocumentFrequency("k", "v", "idf")}
Reducers == {FirstReducer, Count("n"), TopN("v", 0), TopN("v", 2)}

OpInputs ==
    {<<Map(mapper), rows>> : mapper \in Mappers, rows \in SeqsUpTo(RowsT, MaxOpLen)}
    \cup {<<Map(mapper), rows>> : mapper \in StringMappers, rows \in SeqsUpTo(RowsS, MaxMapLen)}
    \cup {<<Map(mapper), rows>> : mapper \in ColumnMappers, rows \in SeqsUpTo(RowsK, MaxMapLen)}
    \cup {<<Reduce(reducer, <<"k">>), rows>> :
             reducer \in Reducers, rows \in SeqsUpTo(RowsNoK, MaxOpLen)}
    \cup {<<ExternalSort(keys), rows>> :
             keys \in {<<"k">>, <<"v", "k">>, <<>>}, rows \in SeqsUpTo(RowsK, MaxOpLen)}
    \cup {<<Reduce(Count("n"), keys), rows>> :
             keys \in {<<>>, <<"k", "v">>}, rows \in SeqsUpTo(RowsK, MaxOpLen)}
    \cup {<<Reduce(Count("k"), <<"k">>), rows>> : rows \in SeqsUpTo(RowsK, MaxOpLen)}

InitOp ==
    /\ MergeIdle /\ JoinIdle /\ BuildIdle /\ RunIdle
    /\ \E inp \in OpInputs : o_op = inp[1] /\ o_rows = inp[2]
    /\ o_at = 0 /\ o_calls = <<>> /\ o_out = <<>>
    /\ o_pc = "start"

NextOp == OpStart \/ MapStep \/ ReduceStep \/ ReduceRaise \/ SortStep \/ OpExit

SpecOp == InitOp /\ [][NextOp]_vars

(***************************************************************************)
(* The claims about Map, Reduce and the sort.                              *)
(***************************************************************************)
\* C16: Map(M)(S) yields the concatenation of M(r) for r in S in input
\* order, the rows of each M(r) contiguous and in the order M produced them;
\* M is called on each row of S once, in order.
C16_MapPurity ==
    o_op.kind = "Map" =>
        /\ Len(o_calls) <= Len(o_rows)
        /\ \A i \in 1..Len(o_calls) : o_calls[i].row = o_rows[i]
        /\ o_out = Flatten([i \in 1..Len(o_calls) |-> Mapper_call(o_op.mapper, o_rows[i])])
        /\ o_pc = "done" => Len(o_calls) = Len(o_rows)

\* a Map of Split done over two rows, the first of a text of two words
C16_Witness ==
    /\ o_pc = "done" /\ o_op.kind = "Map" /\ o_op.mapper.kind = "Split"
    /\ Len(o_rows) = 2 /\ Len(o_rows[1]["t"]) = 2
    /\ Len(o_out) = 3

\* C17: over a stream sorted by K, Reduce(R, K) calls R once per distinct key
\* tuple, in ascending order, with K and all the rows of that key tuple in
\* upstream order, and yields the concatenation of what the calls yield.
C17_ReduceGrouping ==
    (o_op.kind = "Reduce" /\ o_pc = "done" /\ FirstMissing(o_rows, o_op.keys) = 0
        /\ IsSorted(o_rows, o_op.keys)) =>
        LET ks == Ascending(KeysOf(o_rows, o_op.keys))
        IN  /\ Len(o_calls) = Len(ks)
            /\ \A i \in 1..Len(o_calls) :
                /\ o_calls[i].group_key = o_op.keys
                /\ o_calls[i].rows = RowsWithKey(o_rows, o_op.keys, ks[i])
            /\ o_out = Flatten([i \in 1..Len(ks) |->
                   Reducer_call(o_op.reducer, o_op.keys, RowsWithKey(o_rows, o_op.keys, ks[i]))])

\* a Reduce of TopN(2) done over a sorted stream of a group of two rows and a
\* group of one
C17_Witness ==
    /\ o_pc = "done" /\ o_op.kind = "Reduce" /\ o_op.reducer = TopN("v", 2)
    /\ FirstMissing(o_rows, o_op.keys) = 0 /\ IsSorted(o_rows, o_op.keys)
    /\ Len(o_rows) = 3 /\ Len(o_calls) = 2 /\ Len(o_out) = 3

\* C18: a Reduce over a stream with a row that lacks a key column goes on
\* without failure (the missing column being a null component of the key).
C18_MissingKeyIsNull ==
    (o_op.kind = "Reduce" /\ FirstMissing(o_rows, o_op.keys) # 0) => o_pc # "raised"

\* how many times a row occurs in a stream
Occurrences(rows, r) == Cardinality({i \in 1..Len(rows) : rows[i] = r})

\* C20: the sort yields a permutation of its input with the key tuples in
\* nondecreasing order, rows of equal key tuple in their order in the input.
C20_SortStable ==
    (o_op.kind = "ExternalSort" /\ o_pc = "done") =>
        /\ Len(o_out) = Len(o_rows)
        /\ \A r \in Range(o_rows) \cup Range(o_out) :
               Occurrences(o_out, r) = Occurrences(o_rows, r)
        /\ IsSorted(o_out, o_op.keys)
        /\ \A t \in KeysOf(o_rows, o_op.keys) :
               RowsWithKey(o_out, o_op.keys, t) = RowsWithKey(o_rows, o_op.keys, t)

\* a sort by k done over a stream out of order whose two rows of key 1 come
\* with the larger v first
C20_Witness ==
    /\ o_pc = "done" /\ o_op = ExternalSort(<<"k">>)
    /\ o_rows = <<[k |-> 2, v |-> 1], [k |-> 1, v |-> 2], [k |-> 1, v |-> 1]>>
    /\ o_out = <<[k |-> 1, v |-> 2], [k |-> 1, v |-> 1], [k |-> 2, v |-> 1]>>

(***************************************************************************)
(* The claim about a source name the source map does not have.             *)
(***************************************************************************)
\* the name the source of graph g looks up, if it is an iterator source
OwnNames(h, g) ==
    LET op == OperationsOf(h, g)[1]
    IN  IF op.kind = "ReadIterFactory" THEN {op.name} ELSE {}

RECURSIVE NamesIn(_, _)
\* the names the iterator sources of graph g and of its side-graphs look up
NamesIn(h, g) ==
    OwnNames(h, g) \cup UNION {NamesIn(h, GraphsToJoinOf(h, g)[i]) :
                                   i \in 1..Len(GraphsToJoinOf(h, g))}

\* C19: the run of a graph with an iterator source, in the graph or in a
\* nested side-graph, over a name absent from the source map fails with an
\* error that reaches the consumer: the run never ends as a completed run,
\* and no activation goes on past such a source as if its stream were empty.
C19_UnknownSourceFails ==
    /\ (gen = "done" \/ outs # <<>>) => NamesIn(heap, Root) \subseteq DOMAIN kwargs
    /\ gen = "raised" => ~(NamesIn(heap, Root) \subseteq DOMAIN kwargs)
    /\ \A i \in 1..Len(stack) :
        stack[i].at >= 1 => OwnNames(heap, stack[i].self) \subseteq DOMAIN kwargs

\* a run that has invoked the factory of the graph's own source and then
\* failed on the unknown name of its side-graph's source
C19_Witness ==
    /\ gen = "raised"
    /\ \E i \in 1..Len(calls) : calls[i].run = nruns
    /\ OwnNames(heap, Root) \subseteq DOMAIN kwargs

(***************************************************************************)
(* The claim about the laziness of run.                                    *)
(***************************************************************************)
\* C21: execution is pull-driven.  Between the call of run and the consumer's
\* first request no frame of the body exists, no source factory has been
\* invoked for this run, no join has been applied and no row has been
\* yielded for this run; before the first call of run nothing has been
\* invoked at all.
C21_PullDriven ==
    /\ gen = "created" =>
          /\ stack = <<>>
          /\ joins = <<>>
          /\ \A i \in 1..Len(calls) : calls[i].run # nruns
          /\ \A i \in 1..Len(outs) : outs[i].run # nruns
    /\ gen = "none" => calls = <<>> /\ stack = <<>> /\ outs = <<>>

\* a second run called and not yet asked for a row, the first run having
\* invoked a source
C21_Witness ==
    /\ gen = "created"
    /\ nruns = 2
    /\ \E i \in 1..Len(calls) : calls[i].run = 1

(***************************************************************************)
(* The claim about the merge with an empty counterpart.                    *)
(***************************************************************************)
\* C25: merging a row with the empty row is the identity.  For every row r
\* and key list, the merge of (r, {}) and the merge of ({}, r) equal r: no
\* column is renamed, suffixed, added or lost.
C25_MergeWithEmptyIsIdentity ==
    m_pc = "done" =>
        /\ m_row_b = EmptyRow => m_result = m_row_a
        /\ m_row_a = EmptyRow => m_result = m_row_b

\* a row with a key and with the columns v and v_1 merged with {}
C25_Witness ==
    /\ m_pc = "done"
    /\ m_keys = <<"k">>
    /\ m_row_b = EmptyRow
    /\ DOMAIN m_row_a = {"k", "v", "v_1"}
    /\ m_result = m_row_a

\* the rows a strategy emits for a group that has no counterpart (the other
\* argument is the group of the one row {}) are rows of that group as they
\* are, whatever the suffixing of the same columns in matched rows
OneSidedRowsUnrenamed ==
    \A i \in 1..Len(j_calls) :
        LET c == j_calls[i]
            emitted == Joiner_call(j_joiner, j_keys, c.rows_a, c.rows_b)
        IN  /\ c.branch = "if" => Range(emitted) \subseteq Range(c.rows_a)
            /\ c.branch = "elif" => Range(emitted) \subseteq Range(c.rows_b)

(***************************************************************************)
(* The claim about Count.                                                  *)
(***************************************************************************)
\* the rows Reduce(Count(out), K) emitted are one per distinct key tuple of
\* the input, in ascending order of the tuples, each with the columns of K
\* and out, out holding the number of rows of the tuple; the key columns
\* named in cols hold the values of the tuple
CountRows(cols) ==
    LET keys == o_op.keys
        out == o_op.reducer.column
        ks == Ascending(KeysOf(o_rows, keys))
    IN  /\ Len(o_out) = Len(ks)
        /\ \A i \in 1..Len(o_out) :
              /\ DOMAIN o_out[i] = Range(keys) \cup {out}
              /\ o_out[i][out] = Len(RowsWithKey(o_rows, keys, ks[i]))
              /\ \A n \in 1..Len(keys) : keys[n] \in cols => o_out[i][keys[n]] = ks[i][n]
        /\ SumSeq([i \in 1..Len(o_out) |-> o_out[i][out]]) = Len(o_rows)
        /\ o_rows = <<>> => o_out = <<>>

CountDone ==
    /\ o_op.kind = "Reduce" /\ o_op.reducer.kind = "Count" /\ o_pc = "done"
    /\ FirstMissing(o_rows, o_op.keys) = 0 /\ IsSorted(o_rows, o_op.keys)

\* C23 as stated: Reduce(Count(out), K) over a stream sorted by K emits one row
\* per distinct key tuple, with exactly the columns of K, all of them holding
\* the run's key values, plus out holding the number of rows of the run; the
\* out values sum to the number of input rows; an empty input yields no row.
C23_CountAllKeyValues ==
    CountDone => CountRows(Range(o_op.keys))

\* C23 amended: the same, the key columns other than out holding the run's key
\* values; a key column named out holds the number of rows of the run.
C23_CountPerKey ==
    CountDone => CountRows(Range(o_op.keys) \ {o_op.reducer.column})

\* three sorted rows of two key tuples counted: a run of two rows and a run
\* of one
C23_Witness ==
    /\ CountDone
    /\ o_op.keys = <<"k">> /\ o_op.reducer.column = "n"
    /\ Len(o_rows) = 3
    /\ o_out = <<[k |-> 1, n |-> 2], [k |-> 2, n |-> 1]>>

\* Count("k") over the key k: the row of the run of key 1 holds k = 2
C23_KeyOverwritten ==
    /\ CountDone
    /\ o_op.keys = <<"k">> /\ o_op.reducer.column = "k"
    /\ Len(o_rows) = 2
    /\ o_out = <<[k |-> 2]>>
    /\ o_rows[1]["k"] = 1

(***************************************************************************)
(* SpecJoinFair: Join.__call__ over streams in any order, the consumer     *)
(* draining the generator: a step of the body that can be taken is taken.  *)
(***************************************************************************)
MaxLenU == 3          \* rows in each stream of a join over unsorted streams

RowsU == {[k |-> x] : x \in KeyValsV}

JoinInputsU ==
    {<<<<"k">>, A, B>> : A \in SeqsUpTo(RowsU, MaxLenU), B \in SeqsUpTo(RowsU, MaxLenU)}
    \cup {<<<<>>, A, B>> : A \in SeqsUpTo(RowsU, MaxLen), B \in SeqsUpTo(RowsU, MaxLen)}

\* no call of a Join made yet
InitJoinU == MergeIdle /\ JoinIdle /\ BuildIdle /\ RunIdle /\ OpIdle

\* Join(joiner, keys)(rows, args0): the call makes the generator
JoinCall ==
    /\ j_pc = "idle"
    /\ \E kind \in JoinerKinds : j_joiner' = Joiner(kind)
    /\ \E inp \in JoinInputsU : j_keys' = inp[1] /\ j_rows' = inp[2] /\ j_args0' = inp[3]
    /\ j_pc' = "start"
    /\ UNCHANGED <<first_at, second_at, j_calls, j_out>>
    /\ UNCHANGED <<mergeVars, buildVars, runVars, opVars>>

NextJoinU == JoinCall \/ JoinStart \/ JoinLoop \/ JoinExit

\* the branch one iteration of the while loop takes with the groupers at p and
\* q; "none" is the last branch with its inner test failed
JoinBranch(rows, args0, keys, p, q) ==
    IF TakeFirst(rows, args0, keys, p, q) THEN "if"
    ELSE IF TakeSecond(rows, args0, keys, p, q) THEN "elif"
    ELSE IF p # 0 /\ q # 0 THEN "else"
    ELSE "none"

\* the moves of the groupers in one iteration of the while loop: next() on
\* the first grouper in the branches "if" and "else", on the second in the
\* branches "elif" and "else"
JoinAdvance ==
    /\ j_pc = "loop"
    /\ (first_at # 0 \/ second_at # 0)
    /\ LET branch == JoinBranch(j_rows, j_args0, j_keys, first_at, second_at)
       IN  /\ first_at' = IF branch \in {"if", "else"}
                          THEN NextGroup(j_rows, j_keys, first_at) ELSE first_at
           /\ second_at' = IF branch \in {"elif", "else"}
                           THEN NextGroup(j_args0, j_keys, second_at) ELSE second_at

\* the consumer drains the generator, so the body goes on while it has a
\* statement to run: it starts, an iteration that moves a grouper is made,
\* and the loop is left when its condition fails.  The iterations are named
\* by their moves of the groupers (JoinAdvance), which are those of JoinLoop
\* (JoinAdvanceIsLoopBody).
SpecJoinFair ==
    /\ InitJoinU /\ [][NextJoinU]_vars
    /\ WF_vars(JoinStart)
    /\ WF_<<first_at, second_at>>(JoinAdvance)
    /\ WF_vars(JoinExit)

\* JoinAdvance moves the groupers as the loop body does
JoinAdvanceIsLoopBody ==
    (j_pc = "loop" /\ (first_at # 0 \/ second_at # 0)) =>
        LET body == JoinBody(j_joiner, j_keys, j_rows, j_args0, first_at, second_at)
            branch == JoinBranch(j_rows, j_args0, j_keys, first_at, second_at)
        IN  /\ body.first_at = IF branch \in {"if", "else"}
                               THEN NextGroup(j_rows, j_keys, first_at) ELSE first_at
            /\ body.second_at = IF branch \in {"elif", "else"}
                                THEN NextGroup(j_args0, j_keys, second_at) ELSE second_at
            /\ branch # "none" => body.calls[1].branch = branch
            /\ branch = "none" => body.calls = <<>>

\* the rows a grouper at position p has not yet handed out
Remaining(rows, p) == IF p = 0 THEN 0 ELSE Len(rows) - p + 1

\* C24: Join terminates on every pair of finite streams, sorted by the keys
\* or not.  Every iteration of the merge loop moves the left grouper, the
\* right grouper or both forward and moves neither back; every call of the
\* operator leads to the return of its generator, and the generator returns
\* with both groupers exhausted.
C24_JoinTerminates ==
    /\ [][(j_pc = "loop" /\ j_pc' = "loop") =>
             /\ Remaining(j_rows, first_at') <= Remaining(j_rows, first_at)
             /\ Remaining(j_args0, second_at') <= Remaining(j_args0, second_at)
             /\ Remaining(j_rows, first_at') + Remaining(j_args0, second_at')
                    < Remaining(j_rows, first_at) + Remaining(j_args0, second_at)]_vars
    /\ [](j_pc = "done" => first_at = 0 /\ second_at = 0)
    /\ (j_pc = "start") ~> (j_pc = "done")

\* a join done over two streams of three rows neither of which is sorted
C24_Witness ==
    /\ j_pc = "done"
    /\ j_keys = <<"k">>
    /\ Len(j_rows) = 3 /\ ~IsSorted(j_rows, j_keys)
    /\ Len(j_args0) = 3 /\ ~IsSorted(j_args0, j_keys)
    /\ Len(j_calls) >= 3

(***************************************************************************)
(* The claim about the mappers and the row they are given.                 *)
(***************************************************************************)
\* C22: no catalog mapper modifies the row it is given.  Every row of the
\* input of a Map has, after the mapper was called on it and at every later
\* time, the columns and values it had when it was handed to the mapper; a
\* mapper that changes or adds a column does so on another dict, and the rows
\* it yields are those of the mapper applied to the row as it was given.
C22_MappersLeaveInput ==
    o_op.kind = "Map" =>
        \A i \in 1..Len(o_calls) :
            /\ o_rows[i] = o_calls[i].row
            /\ o_calls[i].out = Mapper_call(o_op.mapper, o_calls[i].row)

\* LowerCase over two rows: the row yielded for the first has another string
\* than the row given, which has its upper-case letter still
C22_Witness ==
    /\ o_pc = "done" /\ o_op.kind = "Map" /\ o_op.mapper = LowerCase("s")
    /\ Len(o_rows) = 2
    /\ o_rows[1]["s"] = <<2, 3>>
    /\ o_out[1]["s"] = <<1, 3>>

\* Product into a column the row has: the yielded row has the product under v,
\* the given row its value
C22_WitnessOverwrite ==
    /\ o_pc = "done" /\ o_op.kind = "Map" /\ o_op.mapper = Product(<<"k", "v">>, "v")
    /\ Len(o_rows) = 1
    /\ o_rows[1] = [k |-> 2, v |-> 2]
    /\ o_out[1] = [k |-> 2, v |-> 4]

====
